---- MODULE Spec2Model ----
(***************************************************************************)
(* MenuGenie: the multi-provider orchestration core.                       *)
(*                                                                         *)
(*   SpecPlan   the recognition fallback planner (getProviderOrder) and    *)
(*              the configuration validation (validateOcrConfig)           *)
(*   SpecOcr    OcrService.processImage / processWithTimeout /             *)
(*              cancelOperation on the singleton service                   *)
(*   SpecParse  LlmService.processMenuData / parseResponse on the texts a  *)
(*              language model may answer                                  *)
(*   SpecBatch  MenuService.generateImagesForItems                         *)
(*                                                                         *)
(* Strings built by template literals are modelled as sequences of their   *)
(* fragments, so that "the message contains ..." is a statement about the  *)
(* fragments the code concatenates.                                        *)
(***************************************************************************)
EXTENDS Integers, Sequences, FiniteSets, TLC

VARIABLES
    \* ---- planner / validation harness (SpecPlan)
    planIn,            \* the inputs of one getProviderOrder call
    planOut,           \* its result
    planCalls,         \* number of calls made on these inputs
    keyIn,             \* the two API key values validateOcrConfig reads
    validation,        \* the record validateOcrConfig returned
    \* ---- the configuration the OCR service runs under (SpecOcr)
    cfgProvider,       \* getOcrConfig().provider
    cfgKeys,           \* providers whose API key is set
    \* ---- OcrService (singleton)
    currentOperation,  \* this.currentOperation: NoOperation or a controller id
    abortedCtl,        \* AbortControllers whose signal is aborted
    nextCtl,           \* next fresh controller id
    req,               \* per processImage call: its locals and position
    attempts,          \* history: per call and plan position, what happened
    lastFailure,       \* history: the message the most recent failed attempt failed with
    cancelledMid,      \* history: cancelled between provider 1 failing and provider 2 starting
    cancelledPending,  \* history: the position whose attempt was pending when cancelled, or 0
    \* ---- LlmService.processMenuData (SpecParse)
    llmPc,             \* idle, calling (awaiting callLLM) or done
    llmResponse,       \* the text callLLM resolved with
    llmParsed,         \* history: what parseResponse returned or threw on it
    llmMenu,           \* what processMenuData returned or threw
    llmEnv,            \* import.meta.env: the VITE_*_API_KEY value of each provider
    llmSession,        \* sessionStorage: the temp_*_api_key value of each provider
    llmRequests,       \* history: the endpoints callLLM fetched in this run
    llmCallError,      \* history: what callLLM threw in this run, <<>> if nothing
    llmProgress,       \* history: the progress events this run delivered
    \* ---- MenuService.generateImagesForItems (SpecBatch)
    genMissing,        \* the API keys validateApiKeys finds missing
    genN,              \* items.length
    genPc,             \* idle, awaiting (Promise.all of a batch) or done
    genI,              \* the loop variable i
    genTask,           \* per item: idle, delay (timer armed), lookup, done
    genUrl,            \* per item: the imageUrl its task returned
    itemsWithImages,   \* the result list
    genStatus,         \* the status events reported
    genDelayed,        \* history: the item's lookup started after its timer fired
    genFailed,         \* history: the item's lookup failed
    genOutOfOrder,     \* history: a lookup settled before one of an earlier item of its group
    \* ---- TesseractOcrProvider, the handle OcrProviderFactory caches (SpecTess)
    tessWorker,        \* this.worker: a worker or null
    tessPc,            \* per call of processImage: where it is suspended
    tessMine,          \* history: the worker the call created
    tessKilled,        \* history: the workers the call called terminate() on
    tessLive,          \* the workers created and not terminated
    tessMade,          \* the number of workers created
    tessProgress,      \* per call: the progress values it delivered
    \* ---- OcrProviderFactory and LlmProviderFactory (SpecRegistry)
    regCache,          \* per registry: the providers map, identifier -> instance or none
    regMade,           \* per registry: the number of instances constructed so far
    regCalls,          \* per registry: the number of getProvider calls so far
    regBuilt,          \* history: instances constructed per identifier since the last clearCache
    regCreates,        \* history: createProvider calls per identifier
    regFailed,         \* history: the identifiers whose construction has failed
    regLast,           \* per registry: what the last getProvider returned or threw
    \* ---- MenuService.processMenu (SpecMenu)
    pmVariant,         \* the MenuService class in use: of apiService.ts or of menuService.ts
    pmFilters,         \* meatFilters
    pmPc,              \* idle, ocr, llm, images (the await it is suspended at), returned, threw
    pmStatus,          \* history: the status updates setProcessingStatus received
    pmCalls,           \* history: the stages called, in order
    pmText,            \* ocrResult.text, or none
    pmMenu,            \* processedMenu, or none
    pmFiltered,        \* filteredItems
    pmResult,          \* the ProcessedMenu returned, or none
    pmError,           \* the error thrown to the caller, or <<>>
    pmStragglers       \* provider operations still running after their attempt timed out

planVars == <<planIn, planOut, planCalls, keyIn, validation>>
ocrVars  == <<cfgProvider, cfgKeys, currentOperation, abortedCtl, nextCtl, req,
              attempts, lastFailure, cancelledMid,
                   cancelledPending>>
llmVars  == <<llmPc, llmResponse, llmParsed, llmMenu, llmEnv, llmSession, llmRequests,
              llmCallError, llmProgress>>
genVars  == <<genMissing, genN, genPc, genI, genTask, genUrl, itemsWithImages,
              genStatus, genDelayed, genFailed, genOutOfOrder>>
tessVars == <<tessWorker, tessPc, tessMine, tessKilled, tessLive, tessMade,
              tessProgress>>
regVars  == <<regCache, regMade, regCalls, regBuilt, regCreates, regFailed, regLast>>
pmVars   == <<pmVariant, pmFilters, pmPc, pmStatus, pmCalls, pmText, pmMenu,
              pmFiltered, pmResult, pmError, pmStragglers>>
vars     == <<planVars, ocrVars, llmVars, genVars, tessVars, regVars, pmVars>>

-----------------------------------------------------------------------------
(* Bounds *)

MaxRequests == 1      \* processImage calls made on the singleton service
MaxOverlap == 2       \* processImage calls that overlap on the singleton service
MaxPlanCalls == 2     \* repeated planner calls on the same inputs

MaxDocItems == 2      \* items in one answered document
MaxRand == 2          \* distinct values Math.random can take
MaxItems == 7         \* items given to generateImagesForItems
MaxCalls == 2         \* overlapping calls on the shared Tesseract handle
MaxLogs == 2          \* 'recognizing text' log messages of one call
MaxGets == 3          \* getProvider calls on one registry
MaxStatus == 5        \* status updates of one processMenu request

Requests == 1..MaxOverlap
Sequential == 1..MaxRequests

-----------------------------------------------------------------------------
(* Provider identifiers and configuration *)

Providers == {"tesseract", "google-vision", "ocr-space"}
None      == "none"                     \* preferredProvider === undefined
PreferredChoices == Providers \cup {None}
\* VITE_OCR_DEFAULT_PROVIDER is an arbitrary string cast to OcrProvider
DefaultChoices == Providers \cup {"unknown"}

FallbackProviders == <<"google-vision", "ocr-space", "tesseract">>
TimeoutMs == 30000

GoogleVisionPlaceholder == "YOUR_GOOGLE_VISION_API_KEY_HERE"
OcrSpacePlaceholder     == "YOUR_OCR_SPACE_API_KEY_HERE"
KeyChoices == {"", "YOUR_GOOGLE_VISION_API_KEY_HERE", "YOUR_OCR_SPACE_API_KEY_HERE", "k-123"}

Includes(s, x) == \E k \in 1..Len(s) : s[k] = x
Range(s) == {s[k] : k \in 1..Len(s)}

\* validateOcrConfig(): availableProviders as the array the code builds
validateOcrConfig(gvKey, osKey) ==
    LET a1 == <<"tesseract">>
        a2 == IF gvKey # "" /\ gvKey # GoogleVisionPlaceholder
              THEN Append(a1, "google-vision") ELSE a1
        a3 == IF osKey # "" /\ osKey # OcrSpacePlaceholder
              THEN Append(a2, "ocr-space") ELSE a2
    IN [isValid |-> Len(a3) > 0, availableProviders |-> a3]

\* processImage's guard: throw new Error('No OCR providers are configured')
NoProvidersConfigured(v) == ~v.isValid /\ Len(v.availableProviders) = 0

RECURSIVE AddFallbacks(_, _, _)
AddFallbacks(providers, usable, k) ==
    IF k > Len(FallbackProviders) THEN providers
    ELSE LET f == FallbackProviders[k]
         IN AddFallbacks(IF f \in usable /\ ~Includes(providers, f)
                         THEN Append(providers, f) ELSE providers,
                         usable, k + 1)

\* mutants of getProviderOrder
getProviderOrder_NoFinalFallback(preferred, default, usable) ==
    LET p1 == IF preferred # None /\ preferred \in usable THEN <<preferred>> ELSE <<>>
        p2 == IF default \in usable /\ ~Includes(p1, default) THEN Append(p1, default) ELSE p1
    IN AddFallbacks(p2, usable, 1)

getProviderOrder_DefaultFirst(preferred, default, usable) ==
    LET p1 == IF default \in usable THEN <<default>> ELSE <<>>
        p2 == IF preferred # None /\ preferred \in usable /\ ~Includes(p1, preferred)
              THEN Append(p1, preferred) ELSE p1
        p3 == AddFallbacks(p2, usable, 1)
    IN IF ~Includes(p3, "tesseract") THEN Append(p3, "tesseract") ELSE p3

\* OcrService.getProviderOrder(preferredProvider, availableProviders), with
\* config.provider passed as `default`
getProviderOrder(preferred, default, usable) ==
    LET p1 == IF preferred # None /\ preferred \in usable THEN <<preferred>> ELSE <<>>
        p2 == IF default \in usable /\ ~Includes(p1, default) THEN Append(p1, default) ELSE p1
        p3 == AddFallbacks(p2, usable, 1)
    IN IF ~Includes(p3, "tesseract") THEN Append(p3, "tesseract") ELSE p3

-----------------------------------------------------------------------------
(* SpecPlan: the planner and the validation as pure functions *)

NotCalled == <<"not-called">>
NoValidation == [isValid |-> FALSE, availableProviders |-> <<"not-called">>]

PlanIdle ==
    /\ planIn = [preferred |-> None, default |-> "tesseract", usable |-> {}]
    /\ planOut = NotCalled
    /\ planCalls = 0
    /\ keyIn = [gv |-> "", os |-> ""]
    /\ validation = NoValidation

PlanInit ==
    /\ planIn \in [preferred : PreferredChoices, default : DefaultChoices,
                   usable : SUBSET Providers]
    /\ planOut = NotCalled
    /\ planCalls = 0
    /\ keyIn \in [gv : KeyChoices, os : KeyChoices]
    /\ validation = NoValidation

CallGetProviderOrder ==
    /\ planCalls < MaxPlanCalls
    /\ planOut' = getProviderOrder(planIn.preferred, planIn.default, planIn.usable)
    /\ planCalls' = planCalls + 1
    /\ UNCHANGED <<planIn, keyIn, validation>>

CallValidateOcrConfig ==
    /\ validation = NoValidation
    /\ validation' = validateOcrConfig(keyIn.gv, keyIn.os)
    /\ UNCHANGED <<planIn, planOut, planCalls, keyIn>>

-----------------------------------------------------------------------------
(* Error messages, as the fragments the template literals concatenate *)

ProviderPrefix(p) ==
    CASE p = "tesseract"     -> "Tesseract OCR failed: "
      [] p = "google-vision" -> "Google Vision OCR failed: "
      [] p = "ocr-space"     -> "OCR.space failed: "

\* the inner error a provider wraps; its message may be the empty string
Details == {<<"No text detected in the image">>, <<>>}

ProviderErrorMessage(p, detail) == <<ProviderPrefix(p)>> \o detail

TimeoutMessage ==
    <<"OCR processing timed out after ", ToString(TimeoutMs \div 1000), " seconds">>

CancelMessage == <<"Operation cancelled by user">>

NoError == [null |-> TRUE, message |-> <<>>]
Err(m)  == [null |-> FALSE, message |-> m]

\* lastError?.message || 'Unknown error'
MessageOrUnknown(e) ==
    IF e.null \/ e.message = <<>> THEN <<"Unknown error">> ELSE e.message

AllProvidersFailed(lastError) ==
    Err(<<"All OCR providers failed. Last error: ">> \o MessageOrUnknown(lastError))

-----------------------------------------------------------------------------
(* OcrService *)

NoOperation == 0
Positions == 1..Len(FallbackProviders)

NoAttempt == [provider |-> None, how |-> "none"]

IdleRequest ==
    [pc |-> "idle", ctl |-> NoOperation, plan |-> <<>>, i |-> 0, att |-> "none",
     attErr |-> NoError, lastError |-> NoError,
     result |-> None, error |-> NoError, events |-> <<>>,
     running |-> {}, late |-> {}]

\* this.currentOperation?.signal.aborted
SignalAborted(cur, ab) == cur # NoOperation /\ cur \in ab

IsLastProvider_Always(rq, i) == TRUE

\* i === providers.length - 1 (positions are 1-based here)
IsLastProvider(rq, i) == i = Len(rq.plan)

\* The for loop from the top of iteration i up to its first suspension: either the
\* provider is invoked and the call awaits processWithTimeout, or the cancellation
\* check throws into the catch block, which records the error and moves on.
\* The events a request's progress callback receives, with a mark where a
\* provider's processImage is invoked.
\* onProgress({stage: 'preprocessing', progress: 5, message: 'Attempting OCR with
\* ...', provider: providerType})
AttemptEvent(rq, i) == [kind |-> "attempting", provider |-> rq.plan[i]]

NextProviderEvent_NamesFailed(rq, i) == [kind |-> "trying-next", provider |-> rq.plan[i]]

\* onProgress({..., message: '... failed, trying next provider...',
\* provider: providers[i + 1]})
NextProviderEvent(rq, i) == [kind |-> "trying-next", provider |-> rq.plan[i + 1]]

InvokedMark(rq, i) == [kind |-> "invoked", provider |-> rq.plan[i]]

\* setProcessingStatus({stage: 'error', progress: 0, ...}) in the caller's catch
ErrorEvent == [kind |-> "error", provider |-> None]

RECURSIVE RunLoop(_, _, _, _, _)
RunLoop(rq, i, lastError, cur, ab) ==
    IF SignalAborted(cur, ab)
    THEN IF IsLastProvider(rq, i)
         THEN [rq EXCEPT !.pc = "threw", !.i = i, !.att = "none",
                         !.lastError = Err(CancelMessage),
                         !.error = AllProvidersFailed(Err(CancelMessage)),
                         !.events = Append(@, AttemptEvent(rq, i))]
         ELSE RunLoop([rq EXCEPT !.events = @ \o <<AttemptEvent(rq, i),
                                                   NextProviderEvent(rq, i)>>],
                      i + 1, Err(CancelMessage), cur, ab)
    ELSE [rq EXCEPT !.pc = "awaiting", !.i = i, !.att = "pending",
                    !.attErr = NoError, !.lastError = lastError,
                    !.events = @ \o <<AttemptEvent(rq, i), InvokedMark(rq, i)>>]

\* history: the provider of position rq.i was invoked
Invoked(hist, rq) ==
    IF rq.pc = "awaiting" /\ rq.att = "pending"
    THEN [hist EXCEPT ![rq.i] = [provider |-> rq.plan[rq.i], how |-> "pending"]]
    ELSE hist

\* processImage up to its first await
ProcessImage(r, preferred) ==
    /\ req[r].pc = "idle"
    /\ \A q \in Requests : q < r => req[q].pc # "idle"
    /\ LET v == validateOcrConfig(IF "google-vision" \in cfgKeys THEN "k-123" ELSE "",
                                  IF "ocr-space" \in cfgKeys THEN "k-123" ELSE "")
       IN IF NoProvidersConfigured(v)
          THEN /\ req' = [req EXCEPT ![r].pc = "threw",
                                     ![r].error = Err(<<"No OCR providers are configured">>)]
               /\ UNCHANGED <<currentOperation, nextCtl, attempts>>
          ELSE LET ctl == nextCtl
                   plan == getProviderOrder(preferred, cfgProvider,
                                            Range(v.availableProviders))
                   rq == RunLoop([req[r] EXCEPT !.ctl = ctl, !.plan = plan],
                                 1, NoError, ctl, abortedCtl)
               IN /\ req' = [req EXCEPT ![r] = rq]
                  /\ nextCtl' = nextCtl + 1
                  /\ currentOperation' = IF rq.pc = "threw" THEN NoOperation ELSE ctl
                  /\ attempts' = [attempts EXCEPT ![r] = Invoked(@, rq)]
    /\ UNCHANGED <<cfgProvider, cfgKeys, abortedCtl, lastFailure, cancelledMid,
                   cancelledPending>>

\* provider.processImage(...) resolves before the timer: clearTimeout, resolve(result)
ProviderResolves(r) ==
    /\ req[r].pc = "awaiting" /\ req[r].att = "pending"
    /\ req' = [req EXCEPT ![r].att = "resolved"]
    /\ attempts' = [attempts EXCEPT ![r][req[r].i].how = "success"]
    /\ UNCHANGED <<cfgProvider, cfgKeys, currentOperation, abortedCtl, nextCtl,
                   lastFailure, cancelledMid,
                   cancelledPending>>

\* provider.processImage(...) rejects before the timer: clearTimeout, reject(error)
ProviderRejects(r, detail) ==
    /\ req[r].pc = "awaiting" /\ req[r].att = "pending"
    /\ LET m == ProviderErrorMessage(req[r].plan[req[r].i], detail)
       IN /\ req' = [req EXCEPT ![r].att = "rejected", ![r].attErr = Err(m)]
          /\ attempts' = [attempts EXCEPT ![r][req[r].i].how = "failed"]
          /\ lastFailure' = [lastFailure EXCEPT ![r] = m]
    /\ UNCHANGED <<cfgProvider, cfgKeys, currentOperation, abortedCtl, nextCtl,
                   cancelledMid,
                   cancelledPending>>

TimerFires_NoTimer(r) == FALSE /\ UNCHANGED vars

\* the setTimeout callback of processWithTimeout: reject(timeout error); the
\* provider's operation keeps running
TimerFires(r) ==
    /\ req[r].pc = "awaiting" /\ req[r].att = "pending"
    /\ req' = [req EXCEPT ![r].att = "timedout", ![r].attErr = Err(TimeoutMessage),
                          ![r].running = @ \cup {req[r].i}]
    /\ attempts' = [attempts EXCEPT ![r][req[r].i].how = "timeout"]
    /\ lastFailure' = [lastFailure EXCEPT ![r] = TimeoutMessage]
    /\ UNCHANGED <<cfgProvider, cfgKeys, currentOperation, abortedCtl, nextCtl,
                   cancelledMid,
                   cancelledPending>>

Settle_LastWins(state, outcome) == outcome

\* resolve(...) or reject(...) of the promise processWithTimeout returns: only
\* the first call settles it
Settle(state, outcome) == IF state = "pending" THEN outcome ELSE state

\* the provider operation of position n, whose timer has fired, settles at last:
\* clearTimeout on the fired timer, then resolve(result) or reject(error) on the
\* promise the timer rejected
LateSettles(r, n, outcome) ==
    /\ n \in req[r].running
    /\ req' = [req EXCEPT
                 ![r].running = @ \ {n},
                 ![r].late = IF outcome = "resolved" THEN @ \cup {n} ELSE @,
                 ![r].att = IF req[r].pc = "awaiting" /\ req[r].i = n
                            THEN Settle(@, outcome) ELSE @]
    /\ UNCHANGED <<cfgProvider, cfgKeys, currentOperation, abortedCtl, nextCtl,
                   attempts, lastFailure, cancelledMid, cancelledPending>>

\* the continuation of `await this.processWithTimeout(...)` on success
ResumeSuccess(r) ==
    /\ req[r].pc = "awaiting" /\ req[r].att = "resolved"
    /\ currentOperation' = NoOperation
    /\ req' = [req EXCEPT ![r].pc = "returned", ![r].result = req[r].plan[req[r].i]]
    /\ UNCHANGED <<cfgProvider, cfgKeys, abortedCtl, nextCtl, attempts, lastFailure,
                   cancelledMid,
                   cancelledPending>>

AttemptFailed_NoAwait(rq) == rq.att \in {"pending", "rejected", "timedout"}

\* the awaited promise was rejected (by the provider or by the timer)
AttemptFailed(rq) == rq.att \in {"rejected", "timedout"}

CaughtError_KeepFirst(rq) == IF rq.lastError.null THEN rq.attErr ELSE rq.lastError

\* lastError = error as Error
CaughtError(rq) == rq.attErr

\* the catch block, and the loop on to the next suspension or to the final throw
ResumeFailure(r) ==
    /\ req[r].pc = "awaiting" /\ AttemptFailed(req[r])
    /\ LET rq0 == req[r]
           lastError == CaughtError(rq0)
           rq == IF IsLastProvider(rq0, rq0.i)
                 THEN [rq0 EXCEPT !.pc = "threw", !.att = "none",
                                  !.lastError = lastError,
                                  !.error = AllProvidersFailed(lastError)]
                 ELSE RunLoop([rq0 EXCEPT !.events = Append(@, NextProviderEvent(rq0, rq0.i))],
                              rq0.i + 1, lastError, currentOperation, abortedCtl)
       IN /\ req' = [req EXCEPT ![r] = rq]
          /\ currentOperation' = IF rq.pc = "threw" THEN NoOperation ELSE currentOperation
          /\ attempts' = [attempts EXCEPT ![r] = Invoked(@, rq)]
    /\ UNCHANGED <<cfgProvider, cfgKeys, abortedCtl, nextCtl, lastFailure,
                   cancelledMid,
                   cancelledPending>>

\* the event reported for a request is the caller's error event
Reported(rq) == rq.events # <<>> /\ rq.events[Len(rq.events)].kind = "error"

\* MenuService.processMenu: the awaited processImage threw, the catch block
\* reports the error event and rethrows
ProcessMenuCatch(r) ==
    /\ req[r].pc = "threw" /\ ~Reported(req[r])
    /\ req' = [req EXCEPT ![r].events = Append(@, ErrorEvent)]
    /\ UNCHANGED <<cfgProvider, cfgKeys, currentOperation, abortedCtl, nextCtl,
                   attempts, lastFailure, cancelledMid,
                   cancelledPending>>

\* OcrService.cancelOperation()
CancelOperation ==
    /\ IF currentOperation # NoOperation
       THEN /\ abortedCtl' = abortedCtl \cup {currentOperation}
            /\ currentOperation' = NoOperation
       ELSE UNCHANGED <<abortedCtl, currentOperation>>
    /\ cancelledMid' =
         [r \in Requests |->
            \/ cancelledMid[r]
            \/ /\ currentOperation # NoOperation
               /\ currentOperation = req[r].ctl
               /\ req[r].pc = "awaiting" /\ req[r].i = 1
               /\ req[r].att \in {"rejected", "timedout"}
               /\ Len(req[r].plan) >= 2]
    /\ cancelledPending' =
         [r \in Requests |->
            IF /\ cancelledPending[r] = 0
               /\ currentOperation # NoOperation
               /\ currentOperation = req[r].ctl
               /\ req[r].pc = "awaiting" /\ req[r].att = "pending"
            THEN req[r].i
            ELSE cancelledPending[r]]
    /\ UNCHANGED <<cfgProvider, cfgKeys, nextCtl, req, attempts, lastFailure>>

OcrIdle ==
    /\ cfgProvider = "tesseract"
    /\ cfgKeys = {}
    /\ currentOperation = NoOperation
    /\ abortedCtl = {}
    /\ nextCtl = 1
    /\ req = [r \in Requests |-> IdleRequest]
    /\ attempts = [r \in Requests |-> [n \in Positions |-> NoAttempt]]
    /\ lastFailure = [r \in Requests |-> <<>>]
    /\ cancelledMid = [r \in Requests |-> FALSE]
    /\ cancelledPending = [r \in Requests |-> 0]

OcrInit ==
    /\ cfgProvider \in DefaultChoices
    /\ cfgKeys \in SUBSET {"google-vision", "ocr-space"}
    /\ currentOperation = NoOperation
    /\ abortedCtl = {}
    /\ nextCtl = 1
    /\ req = [r \in Requests |-> IdleRequest]
    /\ attempts = [r \in Requests |-> [n \in Positions |-> NoAttempt]]
    /\ lastFailure = [r \in Requests |-> <<>>]
    /\ cancelledMid = [r \in Requests |-> FALSE]
    /\ cancelledPending = [r \in Requests |-> 0]

-----------------------------------------------------------------------------
(* TesseractOcrProvider.processImage.  OcrProviderFactory.getProvider keeps *)
(* one instance per provider type, so every call runs on the same handle    *)
(* and shares its `worker` field.  A call is suspended at one of its awaits *)
(* and resumed when the awaited promise settles.                            *)

Calls == 1..MaxCalls

NoWorker == 0

\* m.progress of the 'recognizing text' log messages, in percent
LogProgress == {0, 50, 100}

\* Math.round(20 + (m.progress * 60))
LoggerValue(p) == 20 + (p * 60 + 50) \div 100

TessIdle ==
    /\ tessWorker = NoWorker
    /\ tessPc = [c \in Calls |-> "idle"]
    /\ tessMine = [c \in Calls |-> NoWorker]
    /\ tessKilled = [c \in Calls |-> {}]
    /\ tessLive = {}
    /\ tessMade = 0
    /\ tessProgress = [c \in Calls |-> <<>>]

\* the catch block up to `await this.worker.terminate()`, or to its throw when
\* this.worker is null
Catch(c) ==
    /\ IF tessWorker # NoWorker
       THEN /\ tessPc' = [tessPc EXCEPT ![c] = "cleanup"]
            /\ tessLive' = tessLive \ {tessWorker}
            /\ tessKilled' = [tessKilled EXCEPT ![c] = @ \cup {tessWorker}]
       ELSE /\ tessPc' = [tessPc EXCEPT ![c] = "threw"]
            /\ UNCHANGED <<tessLive, tessKilled>>
    /\ UNCHANGED <<tessWorker, tessMine, tessMade>>

\* processImage up to `await preprocessImage(file)`
TessProcessImage(c) ==
    /\ tessPc[c] = "idle"
    /\ tessPc' = [tessPc EXCEPT ![c] = "preprocessing"]
    /\ tessProgress' = [tessProgress EXCEPT ![c] = Append(@, 10)]
    /\ UNCHANGED <<tessWorker, tessMine, tessKilled, tessLive, tessMade>>

\* preprocessImage resolved: on to `await createWorker(...)`
Preprocessed(c) ==
    /\ tessPc[c] = "preprocessing"
    /\ tessPc' = [tessPc EXCEPT ![c] = "creating"]
    /\ tessProgress' = [tessProgress EXCEPT ![c] = Append(@, 20)]
    /\ UNCHANGED <<tessWorker, tessMine, tessKilled, tessLive, tessMade>>

\* createWorker resolved: this.worker = the new worker, on to
\* `await this.worker.recognize(...)`
WorkerCreated(c) ==
    /\ tessPc[c] = "creating"
    /\ tessMade' = tessMade + 1
    /\ tessWorker' = tessMade + 1
    /\ tessLive' = tessLive \cup {tessMade + 1}
    /\ tessMine' = [tessMine EXCEPT ![c] = tessMade + 1]
    /\ tessPc' = [tessPc EXCEPT ![c] = "recognizing"]
    /\ tessProgress' = [tessProgress EXCEPT ![c] = Append(@, 25)]
    /\ UNCHANGED tessKilled

\* the logger of the call's worker reports 'recognizing text'
Logger(c, p) ==
    /\ tessPc[c] = "recognizing"
    /\ tessMine[c] \in tessLive
    /\ Len(tessProgress[c]) < 3 + MaxLogs
    /\ tessProgress' = [tessProgress EXCEPT ![c] = Append(@, LoggerValue(p))]
    /\ UNCHANGED <<tessWorker, tessPc, tessMine, tessKilled, tessLive, tessMade>>

\* recognize resolved: on to `await this.worker.terminate()`; reading
\* `terminate` of null is a TypeError, which the catch block receives
Recognized(c) ==
    /\ tessPc[c] = "recognizing"
    /\ tessProgress' = [tessProgress EXCEPT ![c] = Append(@, 90)]
    /\ IF tessWorker # NoWorker
       THEN /\ tessPc' = [tessPc EXCEPT ![c] = "terminating"]
            /\ tessLive' = tessLive \ {tessWorker}
            /\ tessKilled' = [tessKilled EXCEPT ![c] = @ \cup {tessWorker}]
            /\ UNCHANGED <<tessWorker, tessMine, tessMade>>
       ELSE Catch(c)

\* terminate resolved on the success path: this.worker = null, return
Terminated(c) ==
    /\ tessPc[c] = "terminating"
    /\ tessWorker' = NoWorker
    /\ tessPc' = [tessPc EXCEPT ![c] = "returned"]
    /\ tessProgress' = [tessProgress EXCEPT ![c] = Append(@, 100)]
    /\ UNCHANGED <<tessMine, tessKilled, tessLive, tessMade>>

\* the awaited preprocessImage, createWorker or recognize rejected
AwaitRejects(c) ==
    /\ tessPc[c] \in {"preprocessing", "creating", "recognizing"}
    /\ Catch(c)
    /\ UNCHANGED tessProgress

\* terminate resolved in the catch block: this.worker = null, throw
CleanedUp(c) ==
    /\ tessPc[c] = "cleanup"
    /\ tessWorker' = NoWorker
    /\ tessPc' = [tessPc EXCEPT ![c] = "threw"]
    /\ UNCHANGED <<tessMine, tessKilled, tessLive, tessMade, tessProgress>>

-----------------------------------------------------------------------------
(* LlmService: JSON values and text.                                       *)
(*                                                                         *)
(* A JSON value is a record [t, s, a, o]: its type tag, its scalar text,   *)
(* its array elements and its object members (in insertion order).  A text *)
(* is a sequence of tokens [k, s]: whitespace runs, prose words, code      *)
(* fences, the JSON punctuation characters and JSON scalars.  A brace in   *)
(* prose is the same token as a brace of the JSON document, as it is the   *)
(* same character for indexOf/lastIndexOf.                                 *)

Undef     == [t |-> "undef", s |-> "", a |-> <<>>, o |-> <<>>]
JNull     == [t |-> "null", s |-> "null", a |-> <<>>, o |-> <<>>]
JBool(b)  == [t |-> "bool", s |-> IF b THEN "true" ELSE "false", a |-> <<>>, o |-> <<>>]
JNum(n)   == [t |-> "num", s |-> ToString(n), a |-> <<>>, o |-> <<>>]
JStr(x)   == [t |-> "str", s |-> x, a |-> <<>>, o |-> <<>>]
JArr(e)   == [t |-> "arr", s |-> "", a |-> e, o |-> <<>>]
JObj(m)   == [t |-> "obj", s |-> "", a |-> <<>>, o |-> m]
KV(k, v)  == [k |-> k, v |-> v]

\* JavaScript truthiness: v || d takes d for undefined, null, false, 0 and ''
Falsy(v) ==
    \/ v.t \in {"undef", "null"}
    \/ v.t = "bool" /\ v.s = "false"
    \/ v.t = "num" /\ v.s = "0"
    \/ v.t = "str" /\ v.s = ""

OrElse(v, d) == IF Falsy(v) THEN d ELSE v

HasProp(v, k) == \E n \in 1..Len(v.o) : v.o[n].k = k

\* v[k]: undefined when v has no such own property
Get(v, k) ==
    IF HasProp(v, k)
    THEN v.o[CHOOSE n \in 1..Len(v.o) : v.o[n].k = k].v
    ELSE Undef

\* v[k] = x on an object (or array): replaces in place or adds at the end
SetProp(v, k, x) ==
    IF HasProp(v, k)
    THEN [v EXCEPT !.o = [n \in 1..Len(v.o) |->
                            IF v.o[n].k = k THEN KV(k, x) ELSE v.o[n]]]
    ELSE [v EXCEPT !.o = Append(v.o, KV(k, x))]

\* property reads throw on null and undefined; property writes throw on every
\* primitive (the modules are ES modules, hence strict mode)
IsNullish(v)   == v.t \in {"undef", "null"}
IsPrimitive(v) == v.t \notin {"obj", "arr"}

Ws        == [k |-> "ws", s |-> " "]
Word      == [k |-> "word", s |-> "Here is the menu:"]
\* the three-backtick code fence, with and without the json tag
FenceJson == [k |-> "fence", s |-> "fence-json"]
Fence     == [k |-> "fence", s |-> "fence"]
P(c)      == [k |-> "punct", s |-> c]

\* parts[lo..hi] with a ',' between them
RECURSIVE Join(_, _, _)
Join(parts, lo, hi) ==
    IF lo > hi THEN <<>>
    ELSE IF lo = hi THEN parts[lo]
    ELSE Join(parts, lo, (lo + hi) \div 2) \o <<P(",")>>
           \o Join(parts, (lo + hi) \div 2 + 1, hi)

\* the text of a JSON value, without optional whitespace
RECURSIVE Ser(_)
Ser(v) ==
    CASE v.t = "str"  -> <<[k |-> "str", s |-> v.s]>>
      [] v.t = "num"  -> <<[k |-> "num", s |-> v.s]>>
      [] v.t = "bool" -> <<[k |-> "lit", s |-> v.s]>>
      [] v.t = "null" -> <<[k |-> "lit", s |-> "null"]>>
      [] v.t = "arr"  ->
           <<P("[")>> \o Join([n \in 1..Len(v.a) |-> Ser(v.a[n])], 1, Len(v.a)) \o <<P("]")>>
      [] v.t = "obj"  ->
           <<P("{")>>
             \o Join([n \in 1..Len(v.o) |->
                        <<[k |-> "str", s |-> v.o[n].k], P(":")>> \o Ser(v.o[n].v)],
                     1, Len(v.o))
             \o <<P("}")>>
      [] OTHER        -> <<>>

\* ---- JSON.parse over tokens.  The parser keeps a stack of the arrays and
\* objects it is inside of; a frame is the value built so far and, for an
\* object, the key whose value is being read.
ParseFail == [ok |-> FALSE, v |-> Undef]
Parsed(v) == [ok |-> TRUE, v |-> v]

Frame(val, key)  == [val |-> val, key |-> key]
Conf(stack, mode, v) == [stack |-> stack, mode |-> mode, v |-> v]
Failed == Conf(<<>>, "fail", Undef)

RECURSIVE SkipWs(_, _)
SkipWs(t, i) == IF i <= Len(t) /\ t[i].k = "ws" THEN SkipWs(t, i + 1) ELSE i

\* a value is complete: it is the result, an element of the array or the value
\* of the pending key of the object on top of the stack
Complete(stack, v) ==
    IF stack = <<>> THEN Conf(<<>>, "end", v)
    ELSE LET top == stack[Len(stack)] IN
         IF top.val.t = "arr"
         THEN Conf([stack EXCEPT ![Len(stack)] = Frame(JArr(Append(top.val.a, v)), "")],
                   "afterElement", Undef)
         ELSE Conf([stack EXCEPT ![Len(stack)] = Frame(SetProp(top.val, top.key, v), "")],
                   "afterMember", Undef)

\* the array or object on top of the stack is closed
Close(stack) == Complete(SubSeq(stack, 1, Len(stack) - 1), stack[Len(stack)].val)

ScalarOf(tok) ==
    CASE tok.k = "str" -> JStr(tok.s)
      [] tok.k = "num" -> [t |-> "num", s |-> tok.s, a |-> <<>>, o |-> <<>>]
      [] tok.k = "lit" -> IF tok.s = "null" THEN JNull ELSE JBool(tok.s = "true")

\* the parser reads one token that is not whitespace
Shift(c, tok) ==
    CASE c.mode \in {"value", "firstElement"} ->
           IF tok.k \in {"str", "num", "lit"} THEN Complete(c.stack, ScalarOf(tok))
           ELSE IF tok = P("[")
           THEN Conf(Append(c.stack, Frame(JArr(<<>>), "")), "firstElement", Undef)
           ELSE IF tok = P("{")
           THEN Conf(Append(c.stack, Frame(JObj(<<>>), "")), "firstKey", Undef)
           ELSE IF tok = P("]") /\ c.mode = "firstElement" THEN Close(c.stack)
           ELSE Failed
      [] c.mode = "afterElement" ->
           IF tok = P(",") THEN Conf(c.stack, "value", Undef)
           ELSE IF tok = P("]") THEN Close(c.stack)
           ELSE Failed
      [] c.mode \in {"key", "firstKey"} ->
           IF tok.k = "str"
           THEN Conf([c.stack EXCEPT ![Len(c.stack)].key = tok.s], "colon", Undef)
           ELSE IF tok = P("}") /\ c.mode = "firstKey" THEN Close(c.stack)
           ELSE Failed
      [] c.mode = "colon" ->
           IF tok = P(":") THEN Conf(c.stack, "value", Undef) ELSE Failed
      [] c.mode = "afterMember" ->
           IF tok = P(",") THEN Conf(c.stack, "key", Undef)
           ELSE IF tok = P("}") THEN Close(c.stack)
           ELSE Failed
      [] OTHER -> Failed

\* the parser reads token tok, skipping whitespace between tokens
Read(c, tok) == IF tok.k = "ws" THEN c ELSE Shift(c, tok)

\* the parser state after reading t[lo..hi] from state c: the first half, and
\* unless that ended in a syntax error, the second half
RECURSIVE ParseRange(_, _, _, _)
ParseRange(t, lo, hi, c) ==
    IF lo > hi THEN c
    ELSE IF lo = hi THEN Read(c, t[lo])
    ELSE LET first == ParseRange(t, lo, (lo + hi) \div 2, c) IN
         IF first.mode = "fail" THEN first
         ELSE ParseRange(t, (lo + hi) \div 2 + 1, hi, first)

\* JSON.parse(text): one value, then nothing but whitespace
JSONParse(t) ==
    LET c == ParseRange(t, 1, Len(t), Conf(<<>>, "value", Undef)) IN
    IF c.mode = "end" THEN Parsed(c.v) ELSE ParseFail

\* ---- string operations of parseResponse, over tokens
RECURSIVE TrimEnd(_)
TrimEnd(t) ==
    IF Len(t) > 0 /\ t[Len(t)].k = "ws" THEN TrimEnd(SubSeq(t, 1, Len(t) - 1)) ELSE t

TrimStart(t) == SubSeq(t, SkipWs(t, 1), Len(t))

Trim(t) == TrimEnd(TrimStart(t))

StartsWith(t, tok) == Len(t) > 0 /\ t[1] = tok

\* the replace() of the leading fence and the whitespace after it, on a text that
\* starts with a fence
StripLeadingFence(t) == TrimStart(SubSeq(t, 2, Len(t)))

\* the replace() of a fence at the very end and the whitespace before it
StripTrailingFence(t) ==
    IF Len(t) > 0 /\ t[Len(t)] = Fence THEN TrimEnd(SubSeq(t, 1, Len(t) - 1)) ELSE t

\* indexOf / lastIndexOf, 1-based, 0 for "not found" (-1 in the code)
IndexOf(t, tok) ==
    IF \E n \in 1..Len(t) : t[n] = tok
    THEN CHOOSE n \in 1..Len(t) : t[n] = tok /\ \A m \in 1..(n - 1) : t[m] # tok
    ELSE 0

LastIndexOf(t, tok) ==
    IF \E n \in 1..Len(t) : t[n] = tok
    THEN CHOOSE n \in 1..Len(t) : t[n] = tok /\ \A m \in (n + 1)..Len(t) : t[m] # tok
    ELSE 0

\* substring(startIndex, lastIndex + 1): the two arguments are swapped when the
\* first is the larger one
Substring(t, start, last) ==
    IF start <= last THEN SubSeq(t, start, last) ELSE SubSeq(t, last + 1, start - 1)

-----------------------------------------------------------------------------
(* LlmService.parseResponse and processMenuData *)

Thrown(m)   == [ok |-> FALSE, v |-> Undef, err |-> m]
Returned(v) == [ok |-> TRUE, v |-> v, err |-> <<>>]

\* trim, then the two replace() calls when the text starts with a fence
CleanResponse(response) ==
    LET t == Trim(response) IN
    IF StartsWith(t, FenceJson) \/ StartsWith(t, Fence)
    THEN StripTrailingFence(StripLeadingFence(t))
    ELSE t

ListFields == <<"proteins", "meatProteins", "meatTypes", "cookingMethods",
                "allergens", "herbsSpices", "ingredientTranslations">>

DietaryFlags == <<"vegetarian", "vegan", "halal", "kosher", "pescatarian",
                  "glutenFree", "dairyFree", "nutFree">>

dietaryDefaults == JObj([n \in 1..Len(DietaryFlags) |-> KV(DietaryFlags[n], JBool(FALSE))])

\* the assignments v[ups[1].k] = ups[1].v, v[ups[2].k] = ups[2].v, ... (keys
\* distinct): a property v has keeps its place, the others are added in order
Assign(v, ups) ==
    [v EXCEPT !.o =
        [n \in 1..Len(v.o) |->
           IF \E u \in 1..Len(ups) : ups[u].k = v.o[n].k
           THEN ups[CHOOSE u \in 1..Len(ups) : ups[u].k = v.o[n].k]
           ELSE v.o[n]]
        \o SelectSeq(ups, LAMBDA u : ~HasProp(v, u.k))]

MergeDietary_NoDefaults(di) == IF di.t = "obj" THEN di ELSE JObj(<<>>)

\* { ...dietaryDefaults, ...item.dietaryInfo }: the own properties of a non-object
\* (none, or index keys) never name a flag
MergeDietary(di) == Assign(dietaryDefaults, IF di.t = "obj" THEN di.o ELSE <<>>)

\* item[field] || d
Default(item, field, d) == KV(field, OrElse(Get(item, field), d))

\* the body of section.items.forEach in parseResponse; name and description are
\* the values the first and third assignment leave in the item
DefaultItem(item, sectionName) ==
    LET name == OrElse(Get(item, "name"), JStr("Unknown Item"))
        description == OrElse(Get(item, "description"), JStr(""))
    IN Assign(item,
              <<KV("name", name),
                Default(item, "originalName", name),
                KV("description", description),
                Default(item, "originalDescription", description),
                Default(item, "simplifiedDescription", description),
                Default(item, "section", sectionName),
                Default(item, "price", JStr("0")),
                Default(item, "currency", JStr("$")),
                Default(item, "confidence", JNum(50))>>
              \o [n \in 1..Len(ListFields) |-> Default(item, ListFields[n], JArr(<<>>))]
              \o <<KV("dietaryInfo",
                      MergeDietary(OrElse(Get(item, "dietaryInfo"), JObj(<<>>))))>>)

\* section.items after `if (!section.items || !Array.isArray(section.items))`
SectionItems(sec) ==
    LET items == Get(sec, "items") IN
    IF Falsy(items) \/ items.t # "arr" THEN <<>> ELSE items.a

\* a TypeError inside parsed.sections.forEach: a section or an item that is no
\* object cannot be read (null) or written (any other primitive)
SectionThrows(sec) ==
    \/ IsPrimitive(sec)
    \/ \E n \in 1..Len(SectionItems(sec)) : IsPrimitive(SectionItems(sec)[n])

DefaultSection(sec) ==
    LET items == SectionItems(sec) IN
    SetProp(sec, "items",
            JArr([n \in 1..Len(items) |-> DefaultItem(items[n], Get(sec, "name"))]))

\* the try block of parseResponse
TryParse(response) ==
    LET jsonStr == CleanResponse(response)
        startIndex == IndexOf(jsonStr, P("{"))
        lastIndex == LastIndexOf(jsonStr, P("}"))
    IN IF startIndex = 0 \/ lastIndex = 0
       THEN Thrown(<<"No valid JSON object found in response">>)
       ELSE LET r == JSONParse(Substring(jsonStr, startIndex, lastIndex)) IN
            IF ~r.ok THEN Thrown(<<"SyntaxError">>)
            ELSE IF IsNullish(r.v) THEN Thrown(<<"TypeError">>)
            ELSE IF Falsy(Get(r.v, "sections")) \/ Get(r.v, "sections").t # "arr"
            THEN Thrown(<<"Invalid response structure: missing sections array">>)
            ELSE LET sections == Get(r.v, "sections").a IN
                 IF \E n \in 1..Len(sections) : SectionThrows(sections[n])
                 THEN Thrown(<<"TypeError">>)
                 ELSE Returned(
                        SetProp(SetProp(r.v, "originalLanguage",
                                        OrElse(Get(r.v, "originalLanguage"), JStr("unknown"))),
                                "sections",
                                JArr([n \in 1..Len(sections) |-> DefaultSection(sections[n])])))

Rethrow_EmptyMenu(inner) == Returned(JObj(<<KV("sections", JArr(<<>>))>>))

\* the catch block of parseResponse
Rethrow(inner) == Thrown(<<"Failed to parse LLM response: ">> \o inner)

\* LlmService.parseResponse
parseResponse(response) ==
    LET r == TryParse(response) IN IF r.ok THEN r ELSE Rethrow(r.err)

\* section.name.toLowerCase().replace(/\s+/g, '-') over the section names used here
SectionId(name) ==
    CASE name = "Mains" -> "mains"
      [] name = "Hot Drinks" -> "hot-drinks"
      [] OTHER -> name

RECURSIVE ItemsBefore(_, _)
ItemsBefore(sections, n) ==
    IF n <= 1 THEN 0
    ELSE ItemsBefore(sections, n - 1) + Len(Get(sections[n - 1], "items").a)

\* item_${Date.now()}_${Math.random()...}: the items of one call share the clock
\* reading, the random part is the draw rnd[k] of the k-th item
ItemId(rnd, k) == JStr("item_now_" \o ToString(rnd[k]))

\* { ...item, id: ..., price: item.price || '0', imageUrl: '' }
ConvertItem(item, id) ==
    Assign(JObj(item.o), <<KV("id", id), Default(item, "price", JStr("0")),
                           KV("imageUrl", JStr(""))>>)

ConvertSection(sections, n, rnd) ==
    LET sec == sections[n]
        items == Get(sec, "items").a
    IN JObj(<<KV("id", JStr(SectionId(Get(sec, "name").s))),
              KV("name", Get(sec, "name")),
              KV("items", JArr([k \in 1..Len(items) |->
                                  ConvertItem(items[k],
                                              ItemId(rnd, ItemsBefore(sections, n) + k))]))>>)

RECURSIVE TotalItems(_, _)
TotalItems(sections, n) ==
    IF n > Len(sections) THEN 0
    ELSE Len(Get(sections[n], "items").a) + TotalItems(sections, n + 1)

\* LlmService.processMenuData once callLLM has returned `response`
processMenuData(response, rnd) ==
    LET r == parseResponse(response) IN
    IF ~r.ok THEN Thrown(<<"Failed to process menu with LLM: ">> \o r.err)
    ELSE LET sections == Get(r.v, "sections").a IN
         IF \E n \in 1..Len(sections) : Get(sections[n], "name").t # "str"
         THEN Thrown(<<"Failed to process menu with LLM: ", "TypeError">>)
         ELSE LET converted == [n \in 1..Len(sections) |-> ConvertSection(sections, n, rnd)]
              IN Returned(JObj(<<KV("id", JStr("menu_now")),
                                 KV("originalLanguage", Get(r.v, "originalLanguage")),
                                 KV("targetLanguage", JStr("en")),
                                 KV("sections", JArr(converted)),
                                 KV("totalItems", JNum(TotalItems(converted, 1)))>>))

-----------------------------------------------------------------------------
(* What the language model may answer: JSON documents, the noise around    *)
(* them, and damaged texts.                                                *)

ItemSoup  == JObj(<<KV("name", JStr("Soup"))>>)
ItemEmpty == JObj(<<>>)
ItemFull  ==
    JObj(<<KV("name", JStr("Pho")), KV("originalName", JStr("Pho bo")),
           KV("description", JStr("Beef noodle soup")),
           KV("originalDescription", JStr("Pho bo tai")),
           KV("simplifiedDescription", JStr("Noodle soup")),
           KV("ingredientTranslations", JArr(<<JStr("bo: beef")>>)),
           KV("section", JStr("Soups")), KV("price", JStr("12.50")),
           KV("currency", JStr("EUR")), KV("confidence", JNum(90)),
           KV("proteins", JArr(<<JStr("beef")>>)),
           KV("meatProteins", JArr(<<JStr("beef")>>)),
           KV("allergens", JArr(<<>>)),
           KV("herbsSpices", JArr(<<JStr("basil")>>)),
           KV("dietaryInfo", JObj(<<KV("halal", JBool(TRUE)),
                                    KV("vegan", JBool(FALSE))>>))>>)
ItemFalsy ==
    JObj(<<KV("name", JStr("")), KV("description", JNull), KV("price", JStr("")),
           KV("confidence", JNum(0)), KV("proteins", JNull),
           KV("allergens", JBool(FALSE)), KV("dietaryInfo", JNull)>>)
ItemOddDiet ==
    JObj(<<KV("name", JStr("Tea")), KV("price", JNum(3)),
           KV("dietaryInfo", JStr("yes"))>>)

Section(name, items) == JObj(<<KV("name", name), KV("items", items)>>)
Menu(sections)       == JObj(<<KV("sections", sections)>>)

Docs ==
    { Menu(JArr(<<Section(JStr("Mains"), JArr(<<ItemSoup>>))>>)),
      Menu(JArr(<<Section(JStr("Mains"), JArr(<<ItemEmpty, ItemFull>>))>>)),
      JObj(<<KV("originalLanguage", JStr("vi")),
             KV("sections", JArr(<<Section(JStr("Hot Drinks"), JArr(<<ItemOddDiet>>)),
                                   Section(JStr("Mains"), JArr(<<ItemFalsy>>))>>))>>),
      Menu(JArr(<<JObj(<<KV("items", JArr(<<ItemSoup>>))>>)>>)),
      Menu(JArr(<<JObj(<<KV("name", JStr("Mains"))>>)>>)),
      Menu(JArr(<<Section(JStr("Mains"), JStr("none"))>>)),
      Menu(JArr(<<Section(JStr(""), JArr(<<ItemSoup>>))>>)),
      Menu(JArr(<<Section(JNum(7), JArr(<<ItemSoup>>))>>)),
      Menu(JArr(<<Section(JStr("Mains"), JArr(<<JNull>>))>>)),
      Menu(JArr(<<Section(JStr("Mains"), JArr(<<ItemSoup, JNum(5)>>))>>)),
      Menu(JArr(<<JNull>>)),
      Menu(JArr(<<>>)),
      JObj(<<>>),
      JObj(<<KV("menu", JArr(<<>>))>>),
      Menu(JStr("none")),
      Menu(JObj(<<>>)),
      Menu(JNull) }

Wraps == {"bare", "padded", "fence-json", "fence", "prose-fence", "prose",
          "open-fence", "brace-before", "brace-after"}

Wrap(w, d) ==
    CASE w = "bare"         -> d
      [] w = "padded"       -> <<Ws>> \o d \o <<Ws>>
      [] w = "fence-json"   -> <<FenceJson, Ws>> \o d \o <<Ws, Fence>>
      [] w = "fence"        -> <<Fence, Ws>> \o d \o <<Ws, Fence, Ws>>
      [] w = "prose-fence"  -> <<Word, Ws, FenceJson, Ws>> \o d \o <<Ws, Fence>>
      [] w = "prose"        -> <<Word, Ws>> \o d \o <<Ws, Word>>
      [] w = "open-fence"   -> <<FenceJson, Ws>> \o d
      [] w = "brace-before" -> <<Word, P("{"), Word, P("}"), Ws>> \o d
      [] w = "brace-after"  -> d \o <<Ws, Word, P("}")>>

Damages == {"intact", "no-close", "no-open", "no-braces", "cut"}

IsBrace(tok) == tok = P("{") \/ tok = P("}")

Damage(c, d) ==
    CASE c = "intact"    -> d
      [] c = "no-close"  -> SubSeq(d, 1, Len(d) - 1)
      [] c = "no-open"   -> SubSeq(d, 2, Len(d))
      [] c = "no-braces" -> SelectSeq(d, LAMBDA tok : ~IsBrace(tok))
      [] c = "cut"       -> SubSeq(d, 1, (Len(d) + 1) \div 2)

OddTexts ==
    { <<>>, <<Word>>, <<Ws>>,
      <<P("}"), Ws, [k |-> "lit", s |-> "null"], Ws, P("{")>>,
      <<P("}"), P("["), P("]"), P("{")>>,
      <<P("{"), Word>>, <<Word, P("}")>>,
      <<Fence, Ws, Fence>> }

Responses ==
    { Wrap(w, Damage(c, Ser(d))) : w \in Wraps, c \in Damages, d \in Docs }
        \cup OddTexts

Draws == [1..MaxDocItems -> 1..MaxRand]

\* what callLLM throws once the request is under way: fetch rejects, the
\* status is not ok, or the answer holds no content
LlmFailures == {<<"Failed to fetch">>,
                <<"LLM API error: ", "Unauthorized">>,
                <<"Empty response from LLM">>}

NoOutcome == [ok |-> FALSE, v |-> Undef, err |-> <<"pending">>]

LlmProviders == {"openai", "google", "groq", "anthropic"}

fallbackProviders == <<"openai", "google", "groq", "anthropic">>

\* the key values an environment or the session storage may hold
NoKey == ""
GenericPlaceholder == "YOUR_API_KEY_HERE"
LlmPlaceholder(p) ==
    CASE p = "openai"    -> "YOUR_OPENAI_API_KEY_HERE"
      [] p = "google"    -> "YOUR_GOOGLE_LLM_API_KEY_HERE"
      [] p = "groq"      -> "YOUR_GROQ_API_KEY_HERE"
      [] p = "anthropic" -> "YOUR_ANTHROPIC_API_KEY_HERE"
KeyValues == {NoKey, GenericPlaceholder, LlmPlaceholder("openai"), "sk-key"}

\* getApiKey(keyName, fallbackKey), given what env and session hold for keyName
getApiKey(env, session, fallbackKey) ==
    IF env # NoKey /\ env # GenericPlaceholder THEN env
    ELSE IF session # NoKey /\ session # GenericPlaceholder THEN session
    ELSE IF fallbackKey # NoKey THEN fallbackKey ELSE GenericPlaceholder

\* getConfigValue(envKey, sessionKey, fallback), likewise
getConfigValue(env, session, fallback) ==
    IF env # NoKey /\ env # GenericPlaceholder THEN env
    ELSE IF session # NoKey /\ session # GenericPlaceholder THEN session
    ELSE fallback

\* API_CONFIG.llm.apiKey
ApiConfigLlmKey(env, session) == getApiKey(env["openai"], session["openai"], NoKey)

\* getLlmConfig().providers[p].apiKey
LlmConfigKey(env, session, p) == getConfigValue(env[p], session[p], LlmPlaceholder(p))

\* validateLlmConfig().availableProviders, in the order the checks push them
validateLlmConfig(env, session) ==
    SelectSeq(fallbackProviders,
              LAMBDA p : /\ LlmConfigKey(env, session, p) # NoKey
                         /\ LlmConfigKey(env, session, p) # LlmPlaceholder(p))

\* the guard at the head of callLLM
KeyNotConfigured(apiKey) == apiKey = NoKey \/ apiKey = "YOUR_OPENAI_API_KEY_HERE"

\* the environments looked at: the OpenAI key takes every kind of value, the
\* others are set or not; the session storage holds at most an OpenAI key
LlmEnvs == { e \in [LlmProviders -> KeyValues] :
               \A p \in LlmProviders \ {"openai"} : e[p] \in {NoKey, "sk-key"} }
LlmSessions == { e \in [LlmProviders -> {NoKey, GenericPlaceholder, "sk-session"}] :
                   \A p \in LlmProviders \ {"openai"} : e[p] = NoKey }

LlmRest ==
    /\ llmPc = "idle"
    /\ llmResponse = <<>>
    /\ llmParsed = NoOutcome
    /\ llmMenu = NoOutcome
    /\ llmRequests = <<>>
    /\ llmCallError = <<>>
    /\ llmProgress = <<>>

\* the facade at rest with an OpenAI key in the environment
LlmIdle ==
    /\ LlmRest
    /\ llmEnv = [p \in LlmProviders |-> IF p = "openai" THEN "sk-key" ELSE NoKey]
    /\ llmSession = [p \in LlmProviders |-> NoKey]

LlmInit ==
    /\ LlmRest
    /\ llmEnv \in LlmEnvs
    /\ llmSession \in LlmSessions

\* processMenuData up to `await fetch(...)` in callLLM, or to the throw of
\* callLLM's guard, which the catch of processMenuData wraps
ProcessMenuData ==
    /\ llmPc \in {"idle", "done"}
    /\ llmResponse' = <<>>
    /\ llmParsed' = NoOutcome
    /\ IF KeyNotConfigured(ApiConfigLlmKey(llmEnv, llmSession))
       THEN /\ llmPc' = "done"
            /\ llmMenu' = Thrown(<<"Failed to process menu with LLM: ",
                                   "LLM API key not configured">>)
            /\ llmRequests' = <<>>
            /\ llmCallError' = <<"LLM API key not configured">>
       ELSE /\ llmPc' = "calling"
            /\ llmMenu' = NoOutcome
            /\ llmRequests' = <<"https://api.openai.com/v1/chat/completions">>
            /\ llmCallError' = <<>>
    /\ llmProgress' = <<>>
    /\ UNCHANGED <<llmEnv, llmSession>>

\* callLLM resolved with `response`: processMenuData runs to its return or throw
CallLLMReturns(response, rnd) ==
    /\ llmPc = "calling"
    /\ llmPc' = "done"
    /\ llmResponse' = response
    /\ llmParsed' = parseResponse(response)
    /\ llmMenu' = processMenuData(response, rnd)
    /\ UNCHANGED <<llmEnv, llmSession, llmRequests, llmCallError, llmProgress>>

\* callLLM rejected: the catch of processMenuData wraps the error
CallLLMFails(msg) ==
    /\ llmPc = "calling"
    /\ llmPc' = "done"
    /\ llmMenu' = Thrown(<<"Failed to process menu with LLM: ">> \o msg)
    /\ llmCallError' = msg
    /\ UNCHANGED <<llmResponse, llmParsed, llmEnv, llmSession, llmRequests, llmProgress>>

-----------------------------------------------------------------------------
(* The provider registries.  Both factories keep a static map from provider *)
(* identifier to instance; an instance is named by the order in which its   *)
(* registry constructed it.  The identifier comes from configuration and is *)
(* cast to the provider type, so it can be a string neither switch knows.   *)

Registries == {"ocr", "llm"}

Unsupported == "azure"

Supported(reg) == IF reg = "ocr" THEN Providers ELSE LlmProviders

Identifiers(reg) == Supported(reg) \cup {Unsupported}

NoInstance == 0

NoReturn == [id |-> None, instance |-> NoInstance, threw |-> FALSE]

RegIdle ==
    /\ regCache = [reg \in Registries |-> [id \in Identifiers(reg) |-> NoInstance]]
    /\ regMade = [reg \in Registries |-> 0]
    /\ regCalls = [reg \in Registries |-> 0]
    /\ regBuilt = [reg \in Registries |-> [id \in Identifiers(reg) |-> 0]]
    /\ regCreates = [reg \in Registries |-> [id \in Identifiers(reg) |-> 0]]
    /\ regFailed = [reg \in Registries |-> {}]
    /\ regLast = [reg \in Registries |-> NoReturn]

Has_Never(cache, id) == FALSE

\* this.providers.has(provider)
Has(cache, id) == cache[id] # NoInstance

\* createProvider: the switch constructs an instance or its default throws
CreateThrows(reg, id) == id \notin Supported(reg)

\* getProvider(id): construct and cache on a miss, return the cached instance;
\* when createProvider throws nothing is stored and the error propagates
GetProvider(reg, id) ==
    /\ regCalls[reg] < MaxGets
    /\ regCalls' = [regCalls EXCEPT ![reg] = @ + 1]
    /\ IF Has(regCache[reg], id)
       THEN /\ regLast' = [regLast EXCEPT ![reg] =
                             [id |-> id, instance |-> regCache[reg][id], threw |-> FALSE]]
            /\ UNCHANGED <<regCache, regMade, regBuilt, regCreates, regFailed>>
       ELSE /\ regCreates' = [regCreates EXCEPT ![reg][id] = @ + 1]
            /\ IF CreateThrows(reg, id)
               THEN /\ regFailed' = [regFailed EXCEPT ![reg] = @ \cup {id}]
                    /\ regLast' = [regLast EXCEPT ![reg] =
                                     [id |-> id, instance |-> NoInstance, threw |-> TRUE]]
                    /\ UNCHANGED <<regCache, regMade, regBuilt>>
               ELSE /\ regMade' = [regMade EXCEPT ![reg] = @ + 1]
                    /\ regCache' = [regCache EXCEPT ![reg][id] = regMade[reg] + 1]
                    /\ regBuilt' = [regBuilt EXCEPT ![reg][id] = @ + 1]
                    /\ regLast' = [regLast EXCEPT ![reg] =
                                     [id |-> id, instance |-> regMade[reg] + 1, threw |-> FALSE]]
                    /\ UNCHANGED regFailed

\* LlmProviderFactory.clearCache(): this.providers.clear()
ClearCache ==
    /\ regCache["llm"] # [id \in Identifiers("llm") |-> NoInstance]
    /\ regCache' = [regCache EXCEPT !["llm"] = [id \in Identifiers("llm") |-> NoInstance]]
    /\ regBuilt' = [regBuilt EXCEPT !["llm"] = [id \in Identifiers("llm") |-> 0]]
    /\ regLast' = [regLast EXCEPT !["llm"] = NoReturn]
    /\ UNCHANGED <<regMade, regCalls, regCreates, regFailed>>

-----------------------------------------------------------------------------
(* MenuService.generateImagesForItems: the batch enrichment runner.  The   *)
(* items are identified by their position 1..genN in the input list.       *)

ApiKeyNames == {"Google Vision API Key", "LLM API Key", "Pexels API Key"}

\* validateApiKeys(), given the keys that are unset or placeholders
validateApiKeys(missing) == [isValid |-> missing = {}, missingKeys |-> missing]

batchSize == 3

Items == 1..MaxItems

Min(a, b) == IF a < b THEN a ELSE b

\* items.slice(i, i + batchSize), as 1-based positions
Batch(i, n) == (i + 1)..Min(i + batchSize, n)

\* 80 + Math.round((i / items.length) * 15)
BatchProgress(i, n) == 80 + (30 * i + n) \div (2 * n)

StatusEvent(progress, text) ==
    [stage |-> "generating-images", progress |-> progress, message |-> text]

\* `Finding food images... (${i + 1}/${items.length})`
FindingImages(i, n) == <<"Finding food images... (", i + 1, "/", n, ")">>

SkippingImages == <<"Skipping image generation - Pexels API key not configured">>

GenIdle ==
    /\ genMissing = {}
    /\ genN = 0
    /\ genPc = "idle"
    /\ genI = 0
    /\ genTask = [t \in Items |-> "idle"]
    /\ genUrl = [t \in Items |-> ""]
    /\ itemsWithImages = <<>>
    /\ genStatus = <<>>
    /\ genDelayed = [t \in Items |-> FALSE]
    /\ genFailed = [t \in Items |-> FALSE]
    /\ genOutOfOrder = FALSE

GenInit ==
    /\ genMissing \in SUBSET ApiKeyNames
    /\ genN \in 0..MaxItems
    /\ genPc = "idle"
    /\ genI = 0
    /\ genTask = [t \in Items |-> "idle"]
    /\ genUrl = [t \in Items |-> ""]
    /\ itemsWithImages = <<>>
    /\ genStatus = <<>>
    /\ genDelayed = [t \in Items |-> FALSE]
    /\ genFailed = [t \in Items |-> FALSE]
    /\ genOutOfOrder = FALSE

\* one pass of the for loop from its test to `await Promise.all(...)`, or the
\* return after it: every task of the batch runs to its setTimeout
EnterLoop(i) ==
    IF i < genN
    THEN /\ genPc' = "awaiting"
         /\ genTask' = [t \in Items |-> IF t \in Batch(i, genN) THEN "delay" ELSE genTask[t]]
         /\ genStatus' = Append(genStatus,
                                StatusEvent(BatchProgress(i, genN), FindingImages(i, genN)))
    ELSE /\ genPc' = "done"
         /\ UNCHANGED <<genTask, genStatus>>

PexelsKeyMissing_AllMissing(keys) == keys.missingKeys = ApiKeyNames

\* !validation.isValid && validation.missingKeys.includes('Pexels API Key')
PexelsKeyMissing(keys) == ~keys.isValid /\ "Pexels API Key" \in keys.missingKeys

\* generateImagesForItems from its call to its first await or its return
GenerateImagesForItems ==
    /\ genPc = "idle"
    /\ LET keys == validateApiKeys(genMissing) IN
       IF PexelsKeyMissing(keys)
       THEN /\ genPc' = "done"
            /\ genStatus' = Append(genStatus, StatusEvent(100, SkippingImages))
            /\ itemsWithImages' = [t \in 1..genN |-> [item |-> t, imageUrl |-> ""]]
            /\ UNCHANGED <<genI, genTask>>
       ELSE /\ EnterLoop(0)
            /\ UNCHANGED <<genI, itemsWithImages>>
    /\ UNCHANGED <<genMissing, genN, genUrl, genDelayed, genFailed, genOutOfOrder>>

\* the 200 ms timer of task t fires: the task calls searchFoodImage
DelayElapsed(t) ==
    /\ genTask[t] = "delay"
    /\ genTask' = [genTask EXCEPT ![t] = "lookup"]
    /\ genDelayed' = [genDelayed EXCEPT ![t] = TRUE]
    /\ UNCHANGED <<genMissing, genN, genPc, genI, genUrl, itemsWithImages, genStatus,
                   genFailed, genOutOfOrder>>

\* what the Pexels request of one lookup can do
LookupOutcomes == {"found", "not-ok", "no-photos", "network-error"}

Null == "null"

\* ApiService.searchFoodImage: the photo URL, or null for a response that is not
\* ok (rate limit included), an empty photo list, or an error fetch threw
searchFoodImage(outcome) == IF outcome = "found" THEN "url" ELSE Null

ImageUrlOf_KeepError(outcome) == outcome

\* imageUrl: imageUrl || ''
ImageUrlOf(outcome) ==
    IF searchFoodImage(outcome) = Null THEN "" ELSE searchFoodImage(outcome)

\* searchFoodImage of task t settles and the batch.map callback returns
LookupSettles(t, outcome) ==
    /\ genTask[t] = "lookup"
    /\ genTask' = [genTask EXCEPT ![t] = "done"]
    /\ genUrl' = [genUrl EXCEPT ![t] = ImageUrlOf(outcome)]
    /\ genFailed' = [genFailed EXCEPT ![t] = outcome # "found"]
    /\ genOutOfOrder' = (genOutOfOrder \/ \E u \in 1..(t - 1) : genTask[u] # "done")
    /\ UNCHANGED <<genMissing, genN, genPc, genI, itemsWithImages, genStatus, genDelayed>>

BatchSettled_Any(i) == \E t \in Batch(i, genN) : genTask[t] = "done"

\* Promise.all over the batch has resolved
BatchSettled(i) == \A t \in Batch(i, genN) : genTask[t] = "done"

BatchResults_Reversed(i) ==
    [k \in 1..Cardinality(Batch(i, genN)) |->
       [item |-> i + Cardinality(Batch(i, genN)) + 1 - k,
        imageUrl |-> genUrl[i + Cardinality(Batch(i, genN)) + 1 - k]]]

\* batchResults: Promise.all resolves with the tasks' values at the positions
\* of their promises, which are the positions of the items in the batch
BatchResults(i) ==
    [k \in 1..Cardinality(Batch(i, genN)) |->
       [item |-> i + k, imageUrl |-> genUrl[i + k]]]

\* the continuation after `await Promise.all(...)`: push the batch results in
\* input order, advance i, and run the next pass of the loop
BatchContinue ==
    /\ genPc = "awaiting"
    /\ BatchSettled(genI)
    /\ itemsWithImages' = itemsWithImages \o BatchResults(genI)
    /\ genI' = genI + batchSize
    /\ EnterLoop(genI + batchSize)
    /\ UNCHANGED <<genMissing, genN, genUrl, genDelayed, genFailed, genOutOfOrder>>

-----------------------------------------------------------------------------
(* MenuService.processMenu, in its two versions: the class of apiService.ts *)
(* and the class of menuService.ts (the one the application imports).  The  *)
(* three services are taken by their outcomes here; a menu is the list of   *)
(* its sections, a section the list of its items.  processMenuData takes no *)
(* progress callback (llmService.ts:57), so the one apiService.ts passes is *)
(* never called.                                                            *)

Variants == {"apiService", "menuService"}

MeatFilters == {"vegetarian", "vegan", "beef"}

MenuEntry(id, vegetarian, vegan, meatTypes) ==
    [id |-> id, vegetarian |-> vegetarian, vegan |-> vegan, meatTypes |-> meatTypes,
     imageUrl |-> ""]

Salad == MenuEntry("item_1", TRUE, TRUE, {})
Omelette == MenuEntry("item_2", TRUE, FALSE, {})
Steak == MenuEntry("item_3", FALSE, FALSE, {"beef"})

SectionLists ==
    { <<>>, <<<<Salad>>>>, <<<<Salad, Steak>>, <<Omelette>>>>, <<<<Steak>>, <<>>>>,
      <<<<Omelette>>, <<Steak>>>> }

RECURSIVE FlatItems(_)
\* sections.flatMap(section => section.items)
FlatItems(sections) ==
    IF sections = <<>> THEN <<>> ELSE Head(sections) \o FlatItems(Tail(sections))

\* what LlmService.processMenuData returns: totalItems is the sum of the
\* sections' item counts
ProcessedMenu(sections) == [sections |-> sections, totalItems |-> Len(FlatItems(sections))]

NoMenu == [sections |-> <<>>, totalItems |-> -1]

OcrTexts == {"Pho 12.50", "   "}
NoText == "none"

IsBlank_Never(text) == FALSE

\* !extractedText.trim()
IsBlank(text) == text = "   " \/ text = ""

\* the switch of filterItemsByMeatType for one filter
PassesFilter(item, filter) ==
    CASE filter = "vegetarian" -> item.vegetarian
      [] filter = "vegan" -> item.vegan
      [] filter = "beef" -> filter \in item.meatTypes
      [] OTHER -> TRUE

\* filterItemsByMeatType(items, filters)
filterItemsByMeatType(items, filters) ==
    IF filters = {} THEN items
    ELSE SelectSeq(items, LAMBDA item : \A filter \in filters : PassesFilter(item, filter))

SeqHasId(items, id) == \E k \in 1..Len(items) : items[k].id = id

\* itemsWithImages.find(x => x.id === item.id) || item
FindOrKeep(withImages, item) ==
    IF SeqHasId(withImages, item.id)
    THEN withImages[CHOOSE k \in 1..Len(withImages) :
                           /\ withImages[k].id = item.id
                           /\ \A j \in 1..(k - 1) : withImages[j].id # item.id]
    ELSE item

\* Step 6 of apiService.ts: every item of every section, with its image result
UpdatedSectionsApi(sections, withImages) ==
    [n \in 1..Len(sections) |->
       [k \in 1..Len(sections[n]) |-> FindOrKeep(withImages, sections[n][k])]]

\* Step 6 of menuService.ts: the items that passed the filter only, and the
\* sections left with at least one item
UpdatedSectionsMenu(sections, withImages, filtered) ==
    SelectSeq([n \in 1..Len(sections) |->
                 SelectSeq([k \in 1..Len(sections[n]) |->
                              FindOrKeep(withImages, sections[n][k])],
                           LAMBDA item : SeqHasId(filtered, item.id))],
              LAMBDA items : Len(items) > 0)

UpdatedSections(variant, sections, withImages, filtered) ==
    IF variant = "apiService" THEN UpdatedSectionsApi(sections, withImages)
    ELSE UpdatedSectionsMenu(sections, withImages, filtered)

Status(stage, progress) == [stage |-> stage, progress |-> progress]

\* Math.round(10 + (ocrProgress.progress * 0.3))
OcrStatus(progress) == Status("ocr", (100 + 3 * progress + 5) \div 10)

\* the progress values a recognition provider reports
OcrProgressValues == {5, 90}

\* the error processMenu throws for a caught error with message m
Rethrown(variant, m) ==
    IF variant = "apiService" THEN m ELSE <<"Failed to process menu: ">> \o m

PmRest ==
    /\ pmPc = "idle"
    /\ pmStatus = <<>>
    /\ pmCalls = <<>>
    /\ pmText = NoText
    /\ pmMenu = NoMenu
    /\ pmFiltered = <<>>
    /\ pmResult = NoMenu
    /\ pmError = <<>>
    /\ pmStragglers = 0

PmIdle == PmRest /\ pmVariant = "menuService" /\ pmFilters = {}

PmInit == PmRest /\ pmVariant \in Variants /\ pmFilters \in SUBSET MeatFilters

\* the catch block: the 'error' status, then the throw
Fail(m) ==
    /\ pmPc' = "threw"
    /\ pmStatus' = Append(pmStatus, Status("error", 0))
    /\ pmError' = Rethrown(pmVariant, m)
    /\ UNCHANGED <<pmVariant, pmFilters, pmCalls, pmMenu, pmFiltered, pmResult>>

\* processMenu up to `await this.ocrService.processImage(...)`
ProcessMenu ==
    /\ pmPc = "idle"
    /\ pmPc' = "ocr"
    /\ pmStatus' = Append(pmStatus, Status("ocr", 10))
    /\ pmCalls' = Append(pmCalls, "ocr")
    /\ UNCHANGED <<pmVariant, pmFilters, pmText, pmMenu, pmFiltered, pmResult, pmError,
                   pmStragglers>>

\* the progress callback handed to processImage, called by the provider at work
OcrReports(progress) ==
    /\ pmPc = "ocr"
    /\ Len(pmStatus) < MaxStatus
    /\ pmStatus' = Append(pmStatus, OcrStatus(progress))
    /\ UNCHANGED <<pmVariant, pmFilters, pmPc, pmCalls, pmText, pmMenu, pmFiltered,
                   pmResult, pmError, pmStragglers>>

\* processImage returned `text`, leaving `left` timed-out operations running:
\* on to `await this.llmService.processMenuData(...)`, or to the catch block
OcrReturns(text, left) ==
    /\ pmPc = "ocr"
    /\ pmText' = text
    /\ pmStragglers' = left
    /\ IF IsBlank(text)
       THEN Fail(<<"No text could be extracted from the image">>)
       ELSE /\ pmPc' = "llm"
            /\ pmStatus' = Append(pmStatus, Status("parsing", 45))
            /\ pmCalls' = Append(pmCalls, "llm")
            /\ UNCHANGED <<pmVariant, pmFilters, pmMenu, pmFiltered, pmResult, pmError>>

\* processImage threw: the catch block
OcrThrows(left) ==
    /\ pmPc = "ocr"
    /\ pmStragglers' = left
    /\ Fail(<<"All OCR providers failed. Last error: ", "OCR processing timed out">>)
    /\ UNCHANGED pmText

\* processMenuData returned: steps 3 to 5, up to `await generateImagesForItems`
LlmReturns(sections) ==
    /\ pmPc = "llm"
    /\ pmMenu' = ProcessedMenu(sections)
    /\ pmFiltered' = filterItemsByMeatType(FlatItems(sections), pmFilters)
    /\ pmPc' = "images"
    /\ pmStatus' = Append(pmStatus, Status("generating-images", 80))
    /\ pmCalls' = Append(pmCalls, "images")
    /\ UNCHANGED <<pmVariant, pmFilters, pmText, pmResult, pmError, pmStragglers>>

\* processMenuData threw: the catch block
LlmThrows ==
    /\ pmPc = "llm"
    /\ Fail(<<"Failed to process menu with LLM: ", "LLM API error: ", "Unauthorized">>)
    /\ UNCHANGED <<pmText, pmStragglers>>

\* the progress values generateImagesForItems reports
ImageProgressValues == {80, 95}

\* generateImagesForItems reports through the setProcessingStatus it was given
ImagesReport(progress) ==
    /\ pmPc = "images"
    /\ Len(pmStatus) < MaxStatus
    /\ pmStatus' = Append(pmStatus, Status("generating-images", progress))
    /\ UNCHANGED <<pmVariant, pmFilters, pmPc, pmCalls, pmText, pmMenu, pmFiltered,
                   pmResult, pmError, pmStragglers>>

\* generateImagesForItems returned the filtered items, each with the URL found
\* for it or '': steps 6 and 7 and the return
ImagesReturn(url) ==
    /\ pmPc = "images"
    /\ LET withImages == [k \in 1..Len(pmFiltered) |->
                                 [pmFiltered[k] EXCEPT !.imageUrl = url]]
       IN pmResult' = [pmMenu EXCEPT !.sections =
                          UpdatedSections(pmVariant, pmMenu.sections, withImages,
                                          pmFiltered)]
    /\ pmStatus' = Append(pmStatus, Status("complete", 100))
    /\ pmPc' = "returned"
    /\ UNCHANGED <<pmVariant, pmFilters, pmCalls, pmText, pmMenu, pmFiltered, pmError,
                   pmStragglers>>

\* a provider whose attempt timed out is still at work (processWithTimeout does
\* not stop it) and calls the progress callback it was given
StragglerReports(progress) ==
    /\ pmStragglers > 0
    /\ Len(pmStatus) < MaxStatus
    /\ pmStatus' = Append(pmStatus, OcrStatus(progress))
    /\ UNCHANGED <<pmVariant, pmFilters, pmPc, pmCalls, pmText, pmMenu, pmFiltered,
                   pmResult, pmError, pmStragglers>>

\* that provider's operation settles; nobody awaits it
StragglerEnds ==
    /\ pmStragglers > 0
    /\ pmStragglers' = pmStragglers - 1
    /\ UNCHANGED <<pmVariant, pmFilters, pmPc, pmStatus, pmCalls, pmText, pmMenu,
                   pmFiltered, pmResult, pmError>>

-----------------------------------------------------------------------------
(* Claims about the planner (SpecPlan) *)

Planned == planOut # NotCalled

FallbackIndex(p) == CHOOSE k \in 1..Len(FallbackProviders) : FallbackProviders[k] = p

\* where the planning rules put provider p for the inputs `in`
PlanRank(p, in) ==
    IF p = in.preferred /\ p \in in.usable THEN 0
    ELSE IF p = in.default /\ p \in in.usable THEN 1
    ELSE IF p \in in.usable /\ Includes(FallbackProviders, p) THEN 1 + FallbackIndex(p)
    ELSE 2 + Len(FallbackProviders)

InPlanOrder(plan, in) ==
    \A j, k \in 1..Len(plan) : j < k => PlanRank(plan[j], in) < PlanRank(plan[k], in)

PlacedByRules(in) ==
    {p \in in.usable : p = in.preferred \/ p = in.default \/ Includes(FallbackProviders, p)}

\* C4 as stated: the plan is exactly the usable preferred provider, then the usable
\* default, then the usable providers of the fallback list in declared order; an
\* unusable preferred provider is left out; no identifier occurs twice.
C4_PlanAsStated ==
    Planned =>
        /\ Range(planOut) = PlacedByRules(planIn)
        /\ InPlanOrder(planOut, planIn)
        /\ planIn.preferred \notin planIn.usable => ~Includes(planOut, planIn.preferred)

\* C4 amended: the plan is the usable preferred provider, then the usable default,
\* then the usable providers of the fallback list in declared order, then
\* 'tesseract' as the last entry when it has not been placed by these rules; no
\* identifier occurs twice, and an unusable preferred provider other than
\* 'tesseract' is left out.
C4_PlanWithFinalFallback ==
    Planned =>
        /\ Range(planOut) = PlacedByRules(planIn) \cup {"tesseract"}
        /\ InPlanOrder(planOut, planIn)
        /\ Cardinality(Range(planOut)) = Len(planOut)
        /\ (planIn.preferred \notin planIn.usable /\ planIn.preferred # "tesseract")
              => ~Includes(planOut, planIn.preferred)

C4_Witness ==
    /\ Planned
    /\ planIn.preferred = "ocr-space" /\ planIn.default = "google-vision"
    /\ planIn.usable = {"ocr-space", "google-vision"}
    /\ planOut = <<"ocr-space", "google-vision", "tesseract">>

\* C5: whatever the preferred provider, the configured default and the usable set
\* (the empty set included), the plan contains 'tesseract' and so is never empty,
\* and the validation processImage consults never reports "no providers configured".
C5_TesseractAlwaysPlanned ==
    /\ Planned => (Includes(planOut, "tesseract") /\ Len(planOut) >= 1)
    /\ validation # NoValidation =>
          (Includes(validation.availableProviders, "tesseract")
             /\ ~NoProvidersConfigured(validation))

C5_Witness ==
    /\ Planned /\ planIn.usable = {} /\ planOut = <<"tesseract">>
    /\ validation # NoValidation /\ keyIn.gv = "" /\ keyIn.os = OcrSpacePlaceholder

-----------------------------------------------------------------------------
(* Claims about OcrService.processImage (SpecOcr) *)

Finished(r) == req[r].pc \in {"returned", "threw"}

Contains(m, sub) ==
    \E k \in 0..(Len(m) - Len(sub)) : SubSeq(m, k + 1, k + Len(sub)) = sub

\* the message has a fragment that carries the provider's name
NamesProvider(m, p) == Includes(m, ProviderPrefix(p))

IsCancellationError(e) == ~e.null /\ Contains(e.message, CancelMessage)

Exhausted(r) ==
    /\ req[r].pc = "threw"
    /\ Len(req[r].plan) >= 1
    /\ attempts[r][Len(req[r].plan)].how \in {"failed", "timeout"}

\* C1: a cancellation made after the first planned provider's attempt failed and
\* before the second is started ends the call with a cancellation error, and the
\* second provider is never invoked.
C1_CancelBetweenAttempts ==
    \A r \in Requests :
        cancelledMid[r] =>
            /\ attempts[r][2].how = "none"
            /\ Finished(r) => (req[r].pc = "threw" /\ IsCancellationError(req[r].error))

\* C2: attempts are strictly sequential in plan order: a provider is invoked only
\* when every earlier planned attempt has resolved as a failure or a timeout (so
\* never while one is unresolved and never after one succeeded).
C2_SequentialAttempts ==
    \A r \in Requests : \A n \in Positions :
        attempts[r][n].how # "none" =>
            /\ n <= Len(req[r].plan)
            /\ attempts[r][n].provider = req[r].plan[n]
            /\ \A m \in 1..(n - 1) : attempts[r][m].how \in {"failed", "timeout"}

C2_Witness ==
    \E r \in Requests :
        /\ attempts[r][1].how = "failed" /\ attempts[r][2].how = "timeout"
        /\ attempts[r][3].how = "success" /\ req[r].pc = "returned"

\* C3: an attempt whose timer fired is a failure: once the call has moved past it,
\* the next planned provider has been invoked with the timeout recorded as the last
\* error, or, if it was the last one, the call has thrown the all-providers-failed
\* error carrying the timeout message; the call never returns that attempt's result.
C3_TimeoutIsFailure ==
    \A r \in Requests : \A n \in Positions :
        (attempts[r][n].how = "timeout" /\ (Finished(r) \/ req[r].i > n)) =>
            /\ req[r].pc = "returned" => req[r].result # attempts[r][n].provider
            /\ IF n < Len(req[r].plan)
               THEN /\ attempts[r][n + 1].how # "none"
                    /\ attempts[r][n + 1].provider = req[r].plan[n + 1]
                    /\ (req[r].i = n + 1 /\ ~Finished(r))
                          => req[r].lastError = Err(TimeoutMessage)
               ELSE /\ req[r].pc = "threw"
                    /\ req[r].error =
                         Err(<<"All OCR providers failed. Last error: ">> \o TimeoutMessage)

C3_Witness ==
    \E r \in Requests :
        /\ Len(req[r].plan) = 2
        /\ attempts[r][1].how = "timeout" /\ attempts[r][2].how = "timeout"
        /\ req[r].pc = "threw"

\* C26: the result processImage returns is the result of the one attempt that
\* settled successfully before its timer fired: a provider whose attempt timed out
\* never supplies the returned result, also when its operation completes later; an
\* attempt that succeeded is never turned into a failure; and the returned
\* provider is a member of the plan.
C26_ResultFromTimelySuccess ==
    \A r \in Requests :
        /\ req[r].pc = "returned" =>
              /\ req[r].i \in 1..Len(req[r].plan)
              /\ req[r].result = req[r].plan[req[r].i]
              /\ Includes(req[r].plan, req[r].result)
              /\ \A n \in Positions :
                    attempts[r][n].how = "success" <=> n = req[r].i
        /\ \A n \in req[r].running \cup req[r].late :
              /\ attempts[r][n].how = "timeout"
              /\ req[r].pc = "returned" => req[r].result # req[r].plan[n]
        /\ \A n \in Positions :
              attempts[r][n].how = "success" =>
                  /\ req[r].pc \in {"awaiting", "returned"}
                  /\ req[r].i = n
                  /\ req[r].pc = "awaiting" => req[r].att = "resolved"

C26_Witness ==
    \E r \in Requests :
        /\ req[r].pc = "returned" /\ Len(req[r].plan) >= 2
        /\ 1 \in req[r].late
        /\ req[r].result = req[r].plan[2]

Awaiting(r) == req[r].pc = "awaiting"

\* C27: a cancelOperation made while a processImage request is in flight reaches
\* that request's cancellation token, also when another processImage call on the
\* service has started or finished in the meantime (so the service's token is the
\* token of every request in flight that has not been cancelled); when no request
\* is in flight the token is null, and a cancelOperation made then cancels no
\* request started afterwards (no token is aborted before it is handed out).
C27_CancelReachesInFlight ==
    /\ \A r \in Requests :
          (Awaiting(r) /\ req[r].ctl \notin abortedCtl) => currentOperation = req[r].ctl
    /\ (\A r \in Requests : ~Awaiting(r)) => currentOperation = NoOperation
    /\ \A c \in abortedCtl : c < nextCtl

\* C6: when every planned provider failed, the error thrown to the caller contains
\* the (non-empty) message the last attempted provider failed with.
C6_LastMessageSurfaced ==
    \A r \in Requests :
        Exhausted(r) =>
            /\ lastFailure[r] # <<>>
            /\ Contains(req[r].error.message, lastFailure[r])
            /\ ~Contains(req[r].error.message, <<"Unknown error">>)

C6_Witness ==
    \E r \in Requests :
        /\ Exhausted(r) /\ Len(req[r].plan) = 3
        /\ attempts[r][1].how = "timeout" /\ attempts[r][2].how = "failed"
        /\ attempts[r][3].how = "failed"
        /\ lastFailure[r] = <<ProviderPrefix(req[r].plan[3])>>

\* C7: the error thrown when all providers failed names the last attempted
\* provider, whether that attempt failed by a provider error or by its timeout.
C7_FinalErrorNamesProvider ==
    \A r \in Requests :
        Exhausted(r) => NamesProvider(req[r].error.message, req[r].plan[Len(req[r].plan)])

-----------------------------------------------------------------------------
(* Claims about the response normalizer (SpecParse) *)

HasToken(t, tok) == \E n \in 1..Len(t) : t[n] = tok

\* the raw text from its first '{' to its last '}', empty when there is no such span
RawSlice(t) ==
    IF IndexOf(t, P("{")) # 0 /\ IndexOf(t, P("{")) <= LastIndexOf(t, P("}"))
    THEN SubSeq(t, IndexOf(t, P("{")), LastIndexOf(t, P("}")))
    ELSE <<>>

NoBracePair(t)  == ~HasToken(t, P("{")) \/ ~HasToken(t, P("}"))
Unparseable(t)  == ~NoBracePair(t) /\ ~JSONParse(RawSlice(t)).ok
NoSections(t)   == /\ JSONParse(RawSlice(t)).ok
                   /\ Get(JSONParse(RawSlice(t)).v, "sections").t # "arr"
HoldsMenu(t)    == /\ JSONParse(RawSlice(t)).ok
                   /\ Get(JSONParse(RawSlice(t)).v, "sections").t = "arr"

Answered == llmPc = "done" /\ llmParsed # NoOutcome

IsParseError(r) ==
    ~r.ok /\ Len(r.err) >= 1 /\ r.err[1] = "Failed to parse LLM response: "

\* C8: whenever the raw text has no '{' or no '}', or the slice from the first
\* '{' to the last '}' is not parseable as JSON, or the parsed value has no
\* top-level 'sections' array, parseResponse fails with a parse error and
\* neither it nor processMenuData returns a menu (default, empty or otherwise).
C8_ParseFailureIsAnError ==
    (Answered /\ (NoBracePair(llmResponse) \/ Unparseable(llmResponse)
                    \/ NoSections(llmResponse)))
        => (IsParseError(llmParsed) /\ ~llmMenu.ok)

C8_Witness ==
    /\ Answered
    /\ Unparseable(llmResponse)
    /\ HasToken(llmResponse, FenceJson)
    /\ IsParseError(llmParsed)

\* the required fields of MenuItem
SchemaFields == <<"id", "name", "originalName", "description", "originalDescription",
                  "simplifiedDescription", "ingredientTranslations", "section",
                  "price", "currency", "confidence", "proteins", "meatProteins",
                  "meatTypes", "cookingMethods", "allergens", "herbsSpices",
                  "dietaryInfo", "imageUrl">>

Present(v) == v.t \notin {"undef", "null"}

\* the item of the raw text that the returned item (n, k) was made from
SourceItem(t, n, k) == Get(Get(JSONParse(RawSlice(t)).v, "sections").a[n], "items").a[k]

FullyPopulated(item, src) ==
    /\ \A f \in 1..Len(SchemaFields) : Present(Get(item, SchemaFields[f]))
    /\ \A f \in 1..Len(ListFields) :
         ~HasProp(src, ListFields[f]) => Get(item, ListFields[f]) = JArr(<<>>)
    /\ ~HasProp(src, "price") => Get(item, "price") = JStr("0")
    /\ ~HasProp(src, "confidence") => Get(item, "confidence") = JNum(50)
    /\ Get(item, "dietaryInfo").t = "obj"
    /\ \A f \in 1..Len(DietaryFlags) :
         /\ HasProp(Get(item, "dietaryInfo"), DietaryFlags[f])
         /\ Get(Get(item, "dietaryInfo"), DietaryFlags[f]) =
              IF HasProp(Get(src, "dietaryInfo"), DietaryFlags[f])
              THEN Get(Get(src, "dietaryInfo"), DietaryFlags[f])
              ELSE JBool(FALSE)

ReturnedSections == Get(llmMenu.v, "sections").a
ReturnedItems(n) == Get(ReturnedSections[n], "items").a

\* C9: for a raw text holding a JSON object with a 'sections' array (bare, fenced
\* or surrounded by prose), every item of every section of the returned menu has
\* every schema field present; a list field, the price and the confidence absent
\* from the source item have the defaults [], '0' and 50; the dietary record has
\* all eight flags, each the source item's value if it supplied one, else false.
C9_ItemsFullyPopulated ==
    (Answered /\ HoldsMenu(llmResponse) /\ llmMenu.ok)
        => \A n \in 1..Len(ReturnedSections) :
             \A k \in 1..Len(ReturnedItems(n)) :
               FullyPopulated(ReturnedItems(n)[k], SourceItem(llmResponse, n, k))

C9_Witness ==
    /\ Answered /\ HoldsMenu(llmResponse) /\ llmMenu.ok
    /\ HasToken(llmResponse, Word) /\ HasToken(llmResponse, FenceJson)
    /\ Len(ReturnedSections) = 1 /\ Len(ReturnedItems(1)) = 2
    /\ SourceItem(llmResponse, 1, 1) = ItemEmpty
    /\ Get(ReturnedItems(1)[1], "confidence") = JNum(50)
    /\ Get(Get(ReturnedItems(1)[2], "dietaryInfo"), "halal") = JBool(TRUE)
    /\ Get(Get(ReturnedItems(1)[2], "dietaryInfo"), "nutFree") = JBool(FALSE)

-----------------------------------------------------------------------------
(* Claims about the batch enrichment runner (SpecBatch) *)

\* the group of item t: 1 for items 1..3, 2 for items 4..6, ...
GroupOf(t) == (t - 1) \div 3 + 1

Started(t)  == genTask[t] \in {"lookup", "done"}
InFlight(t) == genTask[t] = "lookup"

\* C10: the n items are processed in consecutive groups of 3 (the last group
\* holding the rest): the tasks active at any time belong to one group, no
\* task of a later group has armed its pacing timer or started its lookup
\* while a task of an earlier group is unfinished, every lookup started after
\* the pacing delay elapsed, the results are pushed group by group, and at
\* most 3 lookups are in flight.
C10_GroupsOfThree ==
    /\ \A t, u \in 1..genN :
         (genTask[t] \in {"delay", "lookup"} /\ genTask[u] \in {"delay", "lookup"})
            => GroupOf(t) = GroupOf(u)
    /\ \A t, u \in 1..genN :
         (genTask[t] # "idle" /\ GroupOf(u) < GroupOf(t)) => genTask[u] = "done"
    /\ \A t \in 1..genN : Started(t) => genDelayed[t]
    /\ \A t \in 1..genN :
         genTask[t] # "idle" => Len(itemsWithImages) >= 3 * (GroupOf(t) - 1)
    /\ Len(itemsWithImages) \in {3 * g : g \in 0..MaxItems} \cup {genN}
    /\ Cardinality({t \in 1..genN : InFlight(t)}) <= 3

C10_Witness ==
    /\ genN = 7
    /\ Len(itemsWithImages) = 6
    /\ InFlight(7)
    /\ genDelayed[7]
    /\ \A t \in 1..6 : genTask[t] = "done"

PexelsConfigured == "Pexels API Key" \notin genMissing

Failures == {t \in 1..genN : genFailed[t]}

\* C11: a failing lookup gives its own item the empty imageUrl and nothing else:
\* an item has the empty imageUrl exactly if its own lookup failed, the run
\* always ends by returning (there is no failed state), and the returned list
\* has one entry per input item, every item's lookup having run.
C11_FailureIsolated ==
    /\ genPc \in {"idle", "awaiting", "done"}
    /\ \A t \in 1..genN :
         genTask[t] = "done" => (genUrl[t] = "" <=> genFailed[t])
    /\ (genPc = "done" /\ PexelsConfigured) =>
         /\ Len(itemsWithImages) = genN
         /\ \A t \in 1..genN :
              /\ genTask[t] = "done"
              /\ itemsWithImages[t].imageUrl = (IF genFailed[t] THEN "" ELSE "url")

C11_Witness ==
    /\ genPc = "done" /\ PexelsConfigured
    /\ genN = 7
    /\ Failures = {2}
    /\ Len(itemsWithImages) = 7
    /\ itemsWithImages[2].imageUrl = ""
    /\ \A t \in (1..7) \ {2} : itemsWithImages[t].imageUrl = "url"

\* C20: the output lists the items in input order, one entry per input at the
\* same position and with the same id, whatever order the lookups of a group
\* settled in
C20_InputOrderKept ==
    /\ \A k \in 1..Len(itemsWithImages) : itemsWithImages[k].item = k
    /\ genPc = "done" => Len(itemsWithImages) = genN

C20_Witness ==
    /\ genPc = "done" /\ PexelsConfigured /\ genOutOfOrder
    /\ genN = 7 /\ Len(itemsWithImages) = 7
    /\ genTask[3] = "done" /\ itemsWithImages[3].item = 3

-----------------------------------------------------------------------------
(* Termination of OcrService.processImage (SpecOcrFair)                    *)

TimedOut(r) == { n \in Positions : attempts[r][n].how = "timeout" }

\* C15: every processImage call eventually returns or throws, and no call
\* waits for more timers than its plan has providers, even when no provider
\* operation ever settles
C15_ProcessImageTerminates ==
    /\ [](\A r \in Requests : Cardinality(TimedOut(r)) <= Len(req[r].plan))
    /\ \A r \in Requests : (req[r].pc = "awaiting") ~> Finished(r)

\* a call whose every planned provider never settled has thrown
C15_Witness ==
    \E r \in Requests :
        /\ req[r].pc = "threw"
        /\ Len(req[r].plan) = 3
        /\ TimedOut(r) = 1..3

-----------------------------------------------------------------------------
(* The events of a request (SpecOcrFair)                                   *)

EventsAt(r, kind, p) ==
    { k \in 1..Len(req[r].events) :
        req[r].events[k] = [kind |-> kind, provider |-> p] }

\* the attempt at position n failed or timed out and the catch block has run
FailureHandled(r, n) ==
    /\ attempts[r][n].how \in {"failed", "timeout"}
    /\ req[r].i > n \/ req[r].pc = "threw"

PreAttemptEvents(r) ==
    \A k \in 1..Len(req[r].events) :
        req[r].events[k].kind = "invoked" =>
            /\ k > 1
            /\ req[r].events[k - 1] =
                   [kind |-> "attempting", provider |-> req[r].events[k].provider]
            /\ Cardinality(EventsAt(r, "attempting", req[r].events[k].provider)) = 1

NextProviderEvents(r) ==
    \A n \in 1..(Len(req[r].plan) - 1) :
        FailureHandled(r, n) =>
            /\ Cardinality({ k \in 1..Len(req[r].events) :
                               req[r].events[k].kind = "trying-next" }) = req[r].i - 1
            /\ Cardinality(EventsAt(r, "trying-next", req[r].plan[n + 1])) = 1
            /\ \A k \in EventsAt(r, "trying-next", req[r].plan[n + 1]) :
                 /\ \A j \in EventsAt(r, "invoked", req[r].plan[n]) : j < k
                 /\ \A j \in EventsAt(r, "invoked", req[r].plan[n + 1]) : k < j

TerminalEvent(r) ==
    (Len(req[r].plan) > 0 /\ FailureHandled(r, Len(req[r].plan))) =>
        \A j \in EventsAt(r, "invoked", req[r].plan[Len(req[r].plan)]) :
            \A k \in (j + 1)..Len(req[r].events) :
                /\ req[r].events[k] = ErrorEvent
                /\ k = Len(req[r].events)

\* C18: every provider invocation is preceded by one pre-attempt event naming
\* that provider; after a failed or timed-out attempt that is not the last,
\* exactly one 'trying next provider' event naming the next planned provider
\* is emitted before that provider is invoked; after the last planned
\* provider's failure no such event is emitted and the error event follows
C18_EventsAroundAttempts ==
    /\ [](\A r \in Requests :
            PreAttemptEvents(r) /\ NextProviderEvents(r) /\ TerminalEvent(r))
    /\ \A r \in Requests : (req[r].pc = "threw") ~> Reported(req[r])

C18_Witness ==
    \E r \in Requests :
        /\ Len(req[r].plan) = 3
        /\ FailureHandled(r, 3)
        /\ Reported(req[r])
        /\ Len(req[r].events) = 9

\* C19: a cancellation raised while a provider attempt is pending is honored:
\* the request ends with a cancellation error without waiting for the timer to
\* fire, the cancellation does not drive fallback and no further provider is
\* attempted
C19_CancelWhilePending ==
    \A r \in Requests :
        cancelledPending[r] # 0 =>
            /\ attempts[r][cancelledPending[r]].how # "timeout"
            /\ \A n \in Positions : n > cancelledPending[r] => attempts[r][n].how = "none"
            /\ Finished(r) => (req[r].pc = "threw" /\ IsCancellationError(req[r].error))

-----------------------------------------------------------------------------
(* Identifiers of the returned items (SpecLlm)                             *)

ItemPositions ==
    { <<n, k>> : n \in 1..Len(ReturnedSections), k \in 1..MaxDocItems }
        \cap { q \in (1..Len(ReturnedSections)) \X (1..MaxDocItems) :
                 q[2] <= Len(ReturnedItems(q[1])) }

ReturnedId(q) == Get(ReturnedItems(q[1])[q[2]], "id")

\* C24: every item of a returned menu carries an identifier assigned by
\* processMenuData, and the identifiers of the items of one menu are pairwise
\* distinct
C24_ItemIdsDistinct ==
    (llmPc = "done" /\ llmMenu.ok) =>
        /\ \A q \in ItemPositions : ReturnedId(q).t = "str" /\ ReturnedId(q).s # ""
        /\ \A q, u \in ItemPositions : q # u => ReturnedId(q) # ReturnedId(u)

\* the fields parseResponse and processMenuData give a default to
DefaultedFields ==
    <<"name", "originalName", "description", "originalDescription",
      "simplifiedDescription", "section", "price", "currency", "confidence">>
        \o ListFields

\* C29: defaults go to absent fields only: every defaulted field the model
\* output supplies, the values 0, false and '' included, is returned unchanged
C29_SuppliedValuesKept ==
    (Answered /\ HoldsMenu(llmResponse) /\ llmMenu.ok) =>
        \A q \in ItemPositions : \A f \in 1..Len(DefaultedFields) :
            HasProp(SourceItem(llmResponse, q[1], q[2]), DefaultedFields[f]) =>
                Get(ReturnedItems(q[1])[q[2]], DefaultedFields[f]) =
                    Get(SourceItem(llmResponse, q[1], q[2]), DefaultedFields[f])

-----------------------------------------------------------------------------
(* Claims about MenuService.processMenu (SpecMenu)                         *)

Terminal(e) == e.stage \in {"complete", "error"}

StatusCount(stage) ==
    Cardinality({ k \in 1..Len(pmStatus) : pmStatus[k].stage = stage })

\* C25: once the terminal status of a request ('complete' or 'error') has been
\* emitted, no further status update of the request reaches the caller
C25_TerminalStatusIsLast ==
    \A k \in 1..(Len(pmStatus) - 1) : ~Terminal(pmStatus[k])

StageOrder == <<"ocr", "llm", "images">>

Called(stage) == \E k \in 1..Len(pmCalls) : pmCalls[k] = stage

\* C28: the stages are called in the order recognition, generation, image
\* lookup; generation only after recognition returned non-blank text, image
\* lookup only after the menu was returned; when a stage fails the later
\* stages are not called, exactly one 'error' status with progress 0 and no
\* 'complete' status is emitted, and an error is thrown to the caller
C28_StagesInOrder ==
    /\ Len(pmCalls) <= 3 /\ pmCalls = SubSeq(StageOrder, 1, Len(pmCalls))
    /\ Called("llm") => pmText = "Pho 12.50"
    /\ Called("images") => pmMenu # NoMenu
    /\ pmPc = "threw" =>
          /\ StatusCount("error") = 1 /\ StatusCount("complete") = 0
          /\ \A k \in 1..Len(pmStatus) :
               pmStatus[k].stage = "error" => pmStatus[k].progress = 0
          /\ pmError # <<>>
          /\ ~Called("images")
          /\ pmResult = NoMenu
    /\ pmPc # "threw" => (StatusCount("error") = 0 /\ pmError = <<>>)
    /\ pmPc = "returned" => (StatusCount("complete") = 1 /\ pmCalls = StageOrder)

C28_Witness ==
    /\ pmPc = "threw" /\ pmText = "   " /\ pmCalls = <<"ocr">>
    /\ pmStatus[Len(pmStatus)] = Status("error", 0)

\* C30: the returned ProcessedMenu has totalItems equal to the number of items
\* over all its returned sections, for every menu and every set of filters
C30_TotalItemsMatches ==
    pmPc = "returned" => pmResult.totalItems = Len(FlatItems(pmResult.sections))

-----------------------------------------------------------------------------
(* Claims about the provider registries (SpecRegistry)                     *)

\* C22: each registry has constructed at most one instance per identifier
\* (for the LLM registry: since the last clearCache), and what getProvider
\* returned is the instance the registry holds for that identifier
C22_OneInstancePerIdentifier ==
    \A reg \in Registries :
        /\ \A id \in Identifiers(reg) : regBuilt[reg][id] <= 1
        /\ (regLast[reg].instance # NoInstance) =>
              regCache[reg][regLast[reg].id] = regLast[reg].instance

C22_Witness ==
    /\ regCalls["ocr"] = 3 /\ regMade["ocr"] = 1 /\ regLast["ocr"].instance = 1
    /\ regCalls["llm"] = 3 /\ regMade["llm"] = 2 /\ regBuilt["llm"]["openai"] = 1
    /\ regLast["llm"] = [id |-> "openai", instance |-> 2, threw |-> FALSE]

\* C23: a failed construction is cached: a later getProvider for the same
\* identifier does not attempt the construction again
C23_FailureCached ==
    \A reg \in Registries : \A id \in regFailed[reg] : regCreates[reg][id] <= 1

-----------------------------------------------------------------------------
(* Claims about the shared Tesseract handle (SpecTess)                     *)

TessFinished(c) == tessPc[c] \in {"returned", "threw"}

OwnWorker(c) == IF tessMine[c] = NoWorker THEN {} ELSE {tessMine[c]}

\* C16: for every interleaving of two overlapping calls on the shared handle,
\* a finished call has terminated exactly the worker it created, and once
\* both calls have finished no worker is left unterminated
C16_WorkerScopedToCall ==
    /\ \A c \in Calls : TessFinished(c) => tessKilled[c] = OwnWorker(c)
    /\ (\A c \in Calls : TessFinished(c)) => tessLive = {}

NonDecreasing(q) == \A k \in 1..(Len(q) - 1) : q[k] <= q[k + 1]

\* C17: within one provider attempt the progress values delivered are
\* integers in 0..100 and never decrease, whether the attempt succeeds or fails
C17_ProgressNeverDecreases ==
    \A c \in Calls :
        /\ \A k \in 1..Len(tessProgress[c]) : tessProgress[c][k] \in 0..100
        /\ NonDecreasing(tessProgress[c])

-----------------------------------------------------------------------------
(* Claims about the generation facade (SpecLlm)                            *)

TryingNext(events) == SelectSeq(events, LAMBDA e : e.stage = "trying-next-provider")

\* the request went out and callLLM threw on it
CallFailed == llmPc = "done" /\ llmRequests # <<>> /\ llmCallError # <<>>

\* a second provider of the declared fallback list is configured
SecondConfigured == Len(validateLlmConfig(llmEnv, llmSession)) >= 2

\* C12: when the first generation provider's call fails and a second provider
\* of the declared fallback list is configured, processMenuData returns a
\* normalized menu and the progress stream of the request holds exactly one
\* 'trying next provider' event
C12_FallsBackToSecondProvider ==
    (CallFailed /\ SecondConfigured) =>
        /\ llmMenu.ok
        /\ Len(TryingNext(llmProgress)) = 1

\* C13: when no generation provider is configured, a finished run has failed
\* with the configuration error and has issued no network request
NoneConfigured == validateLlmConfig(llmEnv, llmSession) = <<>>

C13_NoRequestWhenUnconfigured ==
    (NoneConfigured /\ llmPc # "idle") =>
        /\ llmRequests = <<>>
        /\ llmPc = "done"
        /\ ~llmMenu.ok
        /\ llmMenu.err = <<"Failed to process menu with LLM: ",
                           "LLM API key not configured">>

-----------------------------------------------------------------------------
(* Specifications *)

PlanNext ==
    \/ CallGetProviderOrder /\ UNCHANGED <<ocrVars, llmVars, genVars, tessVars, regVars, pmVars>>
    \/ CallValidateOcrConfig /\ UNCHANGED <<ocrVars, llmVars, genVars, tessVars, regVars, pmVars>>

InitPlan == PlanInit /\ OcrIdle /\ LlmIdle /\ GenIdle /\ TessIdle /\ RegIdle /\ PmIdle
SpecPlan == InitPlan /\ [][PlanNext]_vars

OcrNext ==
    \/ \E r \in Sequential, p \in PreferredChoices :
         ProcessImage(r, p) /\ UNCHANGED <<planVars, llmVars, genVars, tessVars, regVars, pmVars>>
    \/ \E r \in Sequential : ProviderResolves(r) /\ UNCHANGED <<planVars, llmVars, genVars, tessVars, regVars, pmVars>>
    \/ \E r \in Sequential, d \in Details :
         ProviderRejects(r, d) /\ UNCHANGED <<planVars, llmVars, genVars, tessVars, regVars, pmVars>>
    \/ \E r \in Sequential : TimerFires(r) /\ UNCHANGED <<planVars, llmVars, genVars, tessVars, regVars, pmVars>>
    \/ \E r \in Sequential, n \in Positions, outcome \in {"resolved", "rejected"} :
         LateSettles(r, n, outcome) /\ UNCHANGED <<planVars, llmVars, genVars, tessVars, regVars, pmVars>>
    \/ \E r \in Sequential : ResumeSuccess(r) /\ UNCHANGED <<planVars, llmVars, genVars, tessVars, regVars, pmVars>>
    \/ \E r \in Sequential : ResumeFailure(r) /\ UNCHANGED <<planVars, llmVars, genVars, tessVars, regVars, pmVars>>
    \/ \E r \in Sequential : ProcessMenuCatch(r) /\ UNCHANGED <<planVars, llmVars, genVars, tessVars, regVars, pmVars>>
    \/ CancelOperation /\ UNCHANGED <<planVars, llmVars, genVars, tessVars, regVars, pmVars>>

InitOcr == PlanIdle /\ OcrInit /\ LlmIdle /\ GenIdle /\ TessIdle /\ RegIdle /\ PmIdle
SpecOcr == InitOcr /\ [][OcrNext]_vars

\* Scheduling: an armed timer fires unless it is cleared first, and the
\* continuation of a settled await is a microtask the event loop runs
OcrFairness ==
    \A r \in Sequential :
        /\ WF_vars(TimerFires(r) /\ UNCHANGED <<planVars, llmVars, genVars, tessVars, regVars, pmVars>>)
        /\ WF_vars(ResumeSuccess(r) /\ UNCHANGED <<planVars, llmVars, genVars, tessVars, regVars, pmVars>>)
        /\ WF_vars(ResumeFailure(r) /\ UNCHANGED <<planVars, llmVars, genVars, tessVars, regVars, pmVars>>)
        /\ WF_vars(ProcessMenuCatch(r) /\ UNCHANGED <<planVars, llmVars, genVars, tessVars, regVars, pmVars>>)
SpecOcrFair == SpecOcr /\ OcrFairness

\* processImage calls that overlap on the singleton service, Tesseract being the
\* only usable provider
OverlapNext ==
    \/ \E r \in Requests, p \in PreferredChoices : ProcessImage(r, p) /\ UNCHANGED <<planVars, llmVars, genVars, tessVars, regVars, pmVars>>
    \/ \E r \in Requests : ProviderResolves(r) /\ UNCHANGED <<planVars, llmVars, genVars, tessVars, regVars, pmVars>>
    \/ \E r \in Requests, d \in Details : ProviderRejects(r, d) /\ UNCHANGED <<planVars, llmVars, genVars, tessVars, regVars, pmVars>>
    \/ \E r \in Requests : TimerFires(r) /\ UNCHANGED <<planVars, llmVars, genVars, tessVars, regVars, pmVars>>
    \/ \E r \in Requests, n \in Positions, outcome \in {"resolved", "rejected"} :
         LateSettles(r, n, outcome) /\ UNCHANGED <<planVars, llmVars, genVars, tessVars, regVars, pmVars>>
    \/ \E r \in Requests : ResumeSuccess(r) /\ UNCHANGED <<planVars, llmVars, genVars, tessVars, regVars, pmVars>>
    \/ \E r \in Requests : ResumeFailure(r) /\ UNCHANGED <<planVars, llmVars, genVars, tessVars, regVars, pmVars>>
    \/ CancelOperation /\ UNCHANGED <<planVars, llmVars, genVars, tessVars, regVars, pmVars>>

InitOverlap == PlanIdle /\ OcrIdle /\ LlmIdle /\ GenIdle /\ TessIdle /\ RegIdle /\ PmIdle
SpecOverlap == InitOverlap /\ [][OverlapNext]_vars

ParseNext ==
    \/ ProcessMenuData /\ UNCHANGED <<planVars, ocrVars, genVars, tessVars, regVars, pmVars>>
    \/ \E response \in Responses, rnd \in Draws :
         CallLLMReturns(response, rnd) /\ UNCHANGED <<planVars, ocrVars, genVars, tessVars, regVars, pmVars>>
    \/ \E msg \in LlmFailures : CallLLMFails(msg) /\ UNCHANGED <<planVars, ocrVars, genVars, tessVars, regVars, pmVars>>

InitParse == PlanIdle /\ OcrIdle /\ LlmIdle /\ GenIdle /\ TessIdle /\ RegIdle /\ PmIdle
SpecParse == InitParse /\ [][ParseNext]_vars

\* the answers of a well-behaved model: every document, bare or fenced
LlmAnswers == { Wrap(w, Ser(d)) : w \in {"bare", "fence-json"}, d \in Docs }

LlmNext ==
    \/ ProcessMenuData /\ UNCHANGED <<planVars, ocrVars, genVars, tessVars, regVars, pmVars>>
    \/ \E response \in LlmAnswers, rnd \in Draws :
         CallLLMReturns(response, rnd) /\ UNCHANGED <<planVars, ocrVars, genVars, tessVars, regVars, pmVars>>
    \/ \E msg \in LlmFailures : CallLLMFails(msg) /\ UNCHANGED <<planVars, ocrVars, genVars, tessVars, regVars, pmVars>>

InitLlm == PlanIdle /\ OcrIdle /\ LlmInit /\ GenIdle /\ TessIdle /\ RegIdle /\ PmIdle
SpecLlm == InitLlm /\ [][LlmNext]_vars

MenuNext ==
    \/ ProcessMenu /\ UNCHANGED <<planVars, ocrVars, llmVars, genVars, tessVars, regVars>>
    \/ \E progress \in OcrProgressValues :
         OcrReports(progress) /\ UNCHANGED <<planVars, ocrVars, llmVars, genVars, tessVars, regVars>>
    \/ \E text \in OcrTexts, left \in 0..1 :
         OcrReturns(text, left) /\ UNCHANGED <<planVars, ocrVars, llmVars, genVars, tessVars, regVars>>
    \/ \E left \in 0..1 :
         OcrThrows(left) /\ UNCHANGED <<planVars, ocrVars, llmVars, genVars, tessVars, regVars>>
    \/ \E sections \in SectionLists :
         LlmReturns(sections) /\ UNCHANGED <<planVars, ocrVars, llmVars, genVars, tessVars, regVars>>
    \/ LlmThrows /\ UNCHANGED <<planVars, ocrVars, llmVars, genVars, tessVars, regVars>>
    \/ \E progress \in ImageProgressValues :
         ImagesReport(progress) /\ UNCHANGED <<planVars, ocrVars, llmVars, genVars, tessVars, regVars>>
    \/ \E url \in {"", "url"} :
         ImagesReturn(url) /\ UNCHANGED <<planVars, ocrVars, llmVars, genVars, tessVars, regVars>>
    \/ \E progress \in OcrProgressValues :
         StragglerReports(progress) /\ UNCHANGED <<planVars, ocrVars, llmVars, genVars, tessVars, regVars>>
    \/ StragglerEnds /\ UNCHANGED <<planVars, ocrVars, llmVars, genVars, tessVars, regVars>>

InitMenu == PlanIdle /\ OcrIdle /\ LlmIdle /\ GenIdle /\ TessIdle /\ RegIdle /\ PmInit
SpecMenu == InitMenu /\ [][MenuNext]_vars

RegistryNext ==
    \/ \E reg \in Registries : \E id \in Identifiers(reg) :
         GetProvider(reg, id) /\ UNCHANGED <<planVars, ocrVars, llmVars, genVars, tessVars, pmVars>>
    \/ ClearCache /\ UNCHANGED <<planVars, ocrVars, llmVars, genVars, tessVars, pmVars>>

InitRegistry == PlanIdle /\ OcrIdle /\ LlmIdle /\ GenIdle /\ TessIdle /\ RegIdle /\ PmIdle
SpecRegistry == InitRegistry /\ [][RegistryNext]_vars

TessNext ==
    \/ \E c \in Calls : TessProcessImage(c) /\ UNCHANGED <<planVars, ocrVars, llmVars, genVars, regVars, pmVars>>
    \/ \E c \in Calls : Preprocessed(c) /\ UNCHANGED <<planVars, ocrVars, llmVars, genVars, regVars, pmVars>>
    \/ \E c \in Calls : WorkerCreated(c) /\ UNCHANGED <<planVars, ocrVars, llmVars, genVars, regVars, pmVars>>
    \/ \E c \in Calls, p \in LogProgress :
         Logger(c, p) /\ UNCHANGED <<planVars, ocrVars, llmVars, genVars, regVars, pmVars>>
    \/ \E c \in Calls : Recognized(c) /\ UNCHANGED <<planVars, ocrVars, llmVars, genVars, regVars, pmVars>>
    \/ \E c \in Calls : Terminated(c) /\ UNCHANGED <<planVars, ocrVars, llmVars, genVars, regVars, pmVars>>
    \/ \E c \in Calls : AwaitRejects(c) /\ UNCHANGED <<planVars, ocrVars, llmVars, genVars, regVars, pmVars>>
    \/ \E c \in Calls : CleanedUp(c) /\ UNCHANGED <<planVars, ocrVars, llmVars, genVars, regVars, pmVars>>

InitTess == PlanIdle /\ OcrIdle /\ LlmIdle /\ GenIdle /\ TessIdle /\ RegIdle /\ PmIdle
SpecTess == InitTess /\ [][TessNext]_vars

BatchNext ==
    \/ GenerateImagesForItems /\ UNCHANGED <<planVars, ocrVars, llmVars, tessVars, regVars, pmVars>>
    \/ \E t \in Items : DelayElapsed(t) /\ UNCHANGED <<planVars, ocrVars, llmVars, tessVars, regVars, pmVars>>
    \/ \E t \in Items, outcome \in LookupOutcomes :
         LookupSettles(t, outcome) /\ UNCHANGED <<planVars, ocrVars, llmVars, tessVars, regVars, pmVars>>
    \/ BatchContinue /\ UNCHANGED <<planVars, ocrVars, llmVars, tessVars, regVars, pmVars>>

InitBatch == PlanIdle /\ OcrIdle /\ LlmIdle /\ GenInit /\ TessIdle /\ RegIdle /\ PmIdle
SpecBatch == InitBatch /\ [][BatchNext]_vars

====
